---- MODULE Spec2Model ----
(***************************************************************************)
(* Verification model of the MI-3 ingestion pipeline.                      *)
(*   - EventBus, RateLimiter            (src/bus/stream.py)                *)
(*   - RawItem identity, validation     (src/storage/schemas.py)           *)
(*   - AdaptiveFeedWorker host state    (src/ingest/adaptive_feeds_worker) *)
(* Time is a discrete clock `now`.  A rate r = num/den tokens per tick is   *)
(* kept exact by counting tokens in units of 1/den token.                  *)
(***************************************************************************)
EXTENDS Integers, Sequences, FiniteSets, TLC

\* ------------------------------------------------------------------ bounds
NIds == 2
MaxTime == 3
MaxCalls == 3
MaxSubs == 2
NThreads == 2
\* EventBus(recent_ttl_seconds=...), in ticks of the model clock
RecentTtlSeconds == 2
\* deque(maxlen=...) of one channel
ChannelMaxLen == 3
\* minutes a published time ranges over
MaxMinute == 1
\* items of the merged view a stream connection reads (get_latest_items(200))
StreamWindow == 2
\* max_queue_size of a WebSocket adapter
MaxQueueSize == 2
\* passes of the streaming loop of a connection
MaxPolls == 3
\* connection attempts of a WebSocket adapter that the server fails or drops
MaxConnects == 3
\* text frames a WebSocket adapter handles
MaxFrames == 3
\* host fetch cycles started in a run
MaxCycles == 3
\* parts of a signature header value
MaxSigLen == 3
\* POSTs the webhook receiver handles in a run
MaxRequests == 2
\* host fetch cycles started in a run in which updating the host state may raise
MaxErrorCycles == 2

\* --------------------------------------------------------------- utilities
Min(a, b) == IF a <= b THEN a ELSE b
Max(a, b) == IF a >= b THEN a ELSE b

Range(s) == {s[i] : i \in 1..Len(s)}

RECURSIVE SeqFilterIds(_, _)
\* entries of the id->timestamp dict (kept in insertion order) with id in keep
SeqFilterIds(ts, keep) ==
    IF ts = <<>> THEN <<>>
    ELSE IF Head(ts).id \in keep
         THEN <<Head(ts)>> \o SeqFilterIds(Tail(ts), keep)
         ELSE SeqFilterIds(Tail(ts), keep)

\* ------------------------------------------------------------ item domain
Channels == {"news.raw", "alerts"}
Sources == {"ws:a", "hook:b"}
Callbacks == {"cb1", "cb2", "cb_raises"}
\* a callback that raises when it is invoked
Raises(cb) == cb = "cb_raises"
IdOf(i) == "id" \o ToString(i)
Ids == {IdOf(i) : i \in 1..NIds}

\* A published value: a parseable datetime string, an unparseable string, or
\* the empty string.
Published(kind, minute, second, micro, tz) ==
    [kind |-> kind, minute |-> minute, second |-> second, micro |-> micro, tz |-> tz]
PubOk == Published("dt", 0, 0, 0, "Z")
PubBad == Published("bad", 0, 0, 0, "")
PubEmpty == Published("empty", 0, 0, 0, "")

\* An item dict is a function from its keys; an absent key is absent from DOMAIN.
ValidItem(id) ==
    [id |-> id, title |-> "A", link |-> "http://x/1", published |-> PubOk,
     source |-> "src", publisher |-> "pub"]

Without(d, k) == [f \in DOMAIN d \ {k} |-> d[f]]

RequiredFields == {"title", "link", "published", "source", "publisher"}

InvalidItems ==
    LET v == ValidItem(IdOf(1)) IN
       {Without(v, f) : f \in RequiredFields}
  \cup {[v EXCEPT !.title = ""], [v EXCEPT !.link = ""], [v EXCEPT !.source = ""],
        [v EXCEPT !.publisher = ""], [v EXCEPT !.published = PubEmpty],
        [v EXCEPT !.published = PubBad]}

NoIdItems ==
    LET v == ValidItem(IdOf(1)) IN {Without(v, "id"), [v EXCEPT !.id = ""]}

BusItems == {ValidItem(i) : i \in Ids} \cup InvalidItems \cup NoIdItems

\* dict.get(k) is truthy
Truthy(d, k) ==
    /\ k \in DOMAIN d
    /\ IF k = "published" THEN d[k].kind # "empty" ELSE d[k] # ""

\* dateutil parser.parse succeeds
Parseable(p) == p.kind = "dt"

\* validate_raw_item without its published date check
validate_raw_item_NoDateCheck(item_data) ==
    \A f \in RequiredFields : Truthy(item_data, f)

validate_raw_item(item_data) ==
    /\ \A f \in RequiredFields : Truthy(item_data, f)
    /\ Parseable(item_data["published"])

\* ------------------------------------------------------------------ state
VARIABLES
    now,                \* time.time()
    default_rate_limit, \* EventBus.default_rate_limit, a ratio [num, den]
    max_recent_items,   \* EventBus.max_recent_items
    channels,           \* EventBus.channels: known channel -> deque of StreamMessage
    recent_ids,         \* EventBus.recent_ids
    recent_timestamps,  \* EventBus.recent_timestamps, in dict insertion order
    rate_limiters,      \* EventBus.rate_limiters: source -> RateLimiter object
    limiters,           \* the RateLimiter objects constructed so far
    subscribers,        \* EventBus.subscribers: known channel -> list of callbacks
    calls,              \* number of completed bus calls
    last,               \* the last completed bus call and what it returned
    accept_log,         \* ids in order of their last acceptance, with its time
    burst,              \* per source: the publish attempts made at the time its limiter was created
    pc,                 \* per publisher thread: its position inside xadd_json
    targs,              \* per publisher thread: the arguments of its call
    tref,               \* per publisher thread: the RateLimiter object it holds
    tres,               \* per publisher thread: what its call returned
    item_a,             \* a RawItem under construction
    item_b,             \* another RawItem under construction
    made,               \* the ids make_id gave the two items, once computed
    host_states,        \* AdaptiveFeedWorker.host_states: host -> HostState
    sched_now,          \* time.time() of the scheduler, in 1/Scale seconds
    cycle,              \* per host: the fetch cycle in flight: its start, requests and results
    cycles,             \* number of host fetch cycles started
    seen_items,         \* AdaptiveFeedWorker.seen_items
    feed_data,          \* the items of the feed data file, newest first
    not_modified_run,   \* per host: its latest consecutive cycles answered 304 by every feed
    feed_validators,    \* per host and feed: the ETag and Last-Modified of the feed's latest 200 response
    webhook_secret,     \* settings.event_driven.webhook_secret
    background_tasks,   \* process_webhook_payload tasks added and not yet run
    webhook_stats,      \* webhook_adapter.webhook_stats
    last_request,       \* the last POST /push/inbound, what it was answered and whether its JSON was parsed
    sig_call,           \* a call of validate_signature: its arguments and what it returned
    rss_file,           \* the parsed content of settings.realtime.feed_data_file
    latest,             \* the last call of UnifiedDataManager.get_latest_items and what it returned
    sse,                \* one GET /stream/items connection: its generator's locals and what it yielded
    ws,                 \* one WebSocketAdapter: its attributes and where connect_and_run is suspended
    nw,                 \* one NewswireClient: its attributes and where start() is suspended
    mapping             \* a call of a mapper entry point: its arguments and what it did

configVars == <<default_rate_limit, max_recent_items>>
busVars == <<channels, recent_ids, recent_timestamps, rate_limiters, limiters, subscribers>>
histVars == <<calls, last, accept_log, burst>>
threadVars == <<pc, targs, tref, tres>>
idVars == <<item_a, item_b, made>>
schedVars == <<host_states, sched_now, cycle, cycles, seen_items, feed_data, not_modified_run,
               feed_validators>>
hookVars == <<webhook_secret, background_tasks, webhook_stats, last_request, sig_call>>
hubVars == <<rss_file, latest, sse>>
wsVars == <<ws>>
nwVars == <<nw>>
mapVars == <<mapping>>
extVars == <<hubVars, wsVars, nwVars, mapVars>>
offBus == <<idVars, schedVars, hookVars, extVars>>
vars == <<now, default_rate_limit, max_recent_items, channels, recent_ids,
          recent_timestamps, rate_limiters, limiters, subscribers, calls, last,
          accept_log, burst, pc, targs, tref, tres, item_a, item_b, made,
          host_states, sched_now, cycle, cycles, seen_items, feed_data, not_modified_run,
          feed_validators, webhook_secret, background_tasks, webhook_stats, last_request, sig_call,
          rss_file, latest, sse, ws, nw, mapping>>

\* ------------------------------------------------------------ RateLimiter
\* max_tokens = int(default_rate_limit * 5), in tokens
MaxTokens(rate) == (5 * rate.num) \div rate.den

\* a limiter that starts with an empty bucket
RateLimiterNew_Empty(rate, t) == [tokens |-> 0, last_update |-> t]

\* RateLimiter.__init__ at time t; tokens in units of 1/den
RateLimiterNew(rate, t) == [tokens |-> MaxTokens(rate) * rate.den, last_update |-> t]

\* allow() that lets a request through while any fraction of a token is left
RateLimiterAllow_AnyFraction(lim, rate, t) ==
    LET refilled == Min(MaxTokens(rate) * rate.den,
                        lim.tokens + (t - lim.last_update) * rate.num)
        ok == refilled >= 0
    IN [ok |-> ok,
        lim |-> [tokens |-> IF refilled >= rate.den THEN refilled - rate.den ELSE 0,
                 last_update |-> t]]

\* RateLimiter.allow at time t: the verdict and the limiter afterwards
RateLimiterAllow(lim, rate, t) ==
    LET refilled == Min(MaxTokens(rate) * rate.den,
                        lim.tokens + (t - lim.last_update) * rate.num)
        ok == refilled >= rate.den
    IN [ok |-> ok,
        lim |-> [tokens |-> IF ok THEN refilled - rate.den ELSE refilled,
                 last_update |-> t]]

\* self.rate_limiters[source] = RateLimiter(...): the table and the objects afterwards
LimiterCreate(source, rl, objs, rate, t) ==
    [rate_limiters |-> [s \in DOMAIN rl \cup {source} |->
                           IF s = source THEN Len(objs) + 1 ELSE rl[s]],
     limiters |-> Append(objs, RateLimiterNew(rate, t))]

\* EventBus._get_rate_limiter run without interleaving
GetRateLimiter(source, rl, objs, rate, t) ==
    IF source \in DOMAIN rl
    THEN [rate_limiters |-> rl, limiters |-> objs]
    ELSE LimiterCreate(source, rl, objs, rate, t)

\* ------------------------------------------------------------------ dedup
\* first entry with the smallest timestamp, as min(keys, key=timestamp) picks it
RECURSIVE OldestIndex(_, _, _)
OldestIndex(ts, i, best) ==
    IF i > Len(ts) THEN best
    ELSE OldestIndex(ts, i + 1, IF ts[i].ts < ts[best].ts THEN i ELSE best)

KeysOf(ts) == {e.id : e \in Range(ts)}

RECURSIVE EvictOldest(_, _, _)
\* while len(recent_ids) > max_recent_items: drop the oldest entry
EvictOldest(ids, ts, cap) ==
    IF Cardinality(ids) > cap /\ ts # <<>>
    THEN LET oldest == ts[OldestIndex(ts, 1, 1)].id
         IN EvictOldest(ids \ {oldest}, SeqFilterIds(ts, KeysOf(ts) \ {oldest}), cap)
    ELSE [ids |-> ids, ts |-> ts]

\* cleanup that also expires an id accepted exactly TTL ago
CleanupRecent_Inclusive(ids, ts, cap, t) ==
    LET cutoff == t - RecentTtlSeconds
        expired == {e.id : e \in {x \in Range(ts) : x.ts <= cutoff}}
    IN EvictOldest(ids \ expired, SeqFilterIds(ts, KeysOf(ts) \ expired), cap)

\* cleanup whose size limit drops the newest entries instead of the oldest
CleanupRecent_EvictNewest(ids, ts, cap, t) ==
    LET cutoff == t - RecentTtlSeconds
        expired == {e.id : e \in {x \in Range(ts) : x.ts < cutoff}}
        left == SeqFilterIds(ts, KeysOf(ts) \ expired)
        kept == SubSeq(left, 1, Min(Len(left), cap))
    IN [ids |-> KeysOf(kept), ts |-> kept]

\* EventBus._cleanup_recent at time t
CleanupRecent(ids, ts, cap, t) ==
    LET cutoff == t - RecentTtlSeconds
        expired == {e.id : e \in {x \in Range(ts) : x.ts < cutoff}}
    IN EvictOldest(ids \ expired, SeqFilterIds(ts, KeysOf(ts) \ expired), cap)

\* _mark_seen that records the timestamp but not the id
MarkSeen_NoId(ids, ts, id, t) ==
    [ids |-> ids,
     ts |-> IF id \in KeysOf(ts)
            THEN [i \in 1..Len(ts) |-> IF ts[i].id = id THEN [id |-> id, ts |-> t] ELSE ts[i]]
            ELSE Append(ts, [id |-> id, ts |-> t])]

\* EventBus._mark_seen at time t
MarkSeen(ids, ts, id, t) ==
    [ids |-> ids \cup {id},
     ts |-> IF id \in KeysOf(ts)
            THEN [i \in 1..Len(ts) |-> IF ts[i].id = id THEN [id |-> id, ts |-> t] ELSE ts[i]]
            ELSE Append(ts, [id |-> id, ts |-> t])]

\* deque(maxlen).append
DequeAppend(q, m) ==
    IF ChannelMaxLen = 0 THEN <<>>
    ELSE IF Len(q) >= ChannelMaxLen THEN Append(Tail(q), m) ELSE Append(q, m)

\* defaultdict lookup: the dict afterwards (a missing key is inserted)
DefaultGet(d, k, default) ==
    IF k \in DOMAIN d THEN d ELSE [x \in DOMAIN d \cup {k} |-> IF x = k THEN default ELSE d[x]]

\* ------------------------------------------------------------- xadd_json
\* message id of a publish; "" stands for a falsy id (None or empty)
MessageId(channel, data, t) ==
    IF "id" \in DOMAIN data THEN data["id"]
    ELSE IF channel = "news.raw" THEN ""
    ELSE channel \o ":" \o ToString(t)

\* xadd_json up to its rate-limit check: "invalid", "missing_id" or "checked"
Precheck(channel, data, t) ==
    IF channel = "news.raw" /\ ~validate_raw_item(data) THEN "invalid"
    ELSE IF MessageId(channel, data, t) = "" THEN "missing_id"
    ELSE "checked"

RECURSIVE NotifyLoop(_, _, _)
\* `for callback in self.subscribers[channel]: try: callback(message)`: the
\* callbacks invoked, in order; `caught` says whether a raise is caught
NotifyLoop(callbacks, invoked, caught) ==
    IF callbacks = <<>> THEN invoked
    ELSE IF Raises(Head(callbacks)) /\ ~caught
         THEN Append(invoked, Head(callbacks))
         ELSE NotifyLoop(Tail(callbacks), Append(invoked, Head(callbacks)), caught)

\* a notify loop without the try/except: the first raise ends it
Notify_Uncaught(callbacks) == NotifyLoop(callbacks, <<>>, FALSE)

\* the notify loop of xadd_json: `except Exception` catches and logs
Notify(callbacks) == NotifyLoop(callbacks, <<>>, TRUE)

\* xadd_json after the dedup check passed: append to the channel, mark the id
\* seen, notify the subscribers
Insert(channel, data, source, message_id, ch, ids, ts, subs, t) ==
    LET message == [id |-> message_id, channel |-> channel, data |-> data,
                    timestamp |-> t, source |-> source]
        ch1 == DefaultGet(ch, channel, <<>>)
        seen == MarkSeen(ids, ts, message_id, t)
        subs1 == DefaultGet(subs, channel, <<>>)
    IN [channels |-> [ch1 EXCEPT ![channel] = DequeAppend(@, message)],
        recent_ids |-> seen.ids, recent_timestamps |-> seen.ts,
        subscribers |-> subs1, invoked |-> Notify(subs1[channel])]

Outcome(result, reason, id, ch, ids, ts, rl, objs, subs, invoked) ==
    [result |-> result, reason |-> reason, id |-> id, channels |-> ch,
     recent_ids |-> ids, recent_timestamps |-> ts, rate_limiters |-> rl,
     limiters |-> objs, subscribers |-> subs, invoked |-> invoked]

\* xadd_json that looks the id up in the dedup window before it asks the rate
\* limiter, so that a duplicate takes no token
xadd_json_DedupFirst(channel, data, source) ==
    LET message_id == MessageId(channel, data, now)
        pre == Precheck(channel, data, now)
        c == CleanupRecent(recent_ids, recent_timestamps, max_recent_items, now)
    IN
    IF pre # "checked"
    THEN Outcome(FALSE, pre, message_id, channels, recent_ids, recent_timestamps,
                 rate_limiters, limiters, subscribers, <<>>)
    ELSE IF message_id \in c.ids
    THEN Outcome(FALSE, "duplicate", message_id, channels, c.ids, c.ts,
                 rate_limiters, limiters, subscribers, <<>>)
    ELSE
      LET g == GetRateLimiter(source, rate_limiters, limiters, default_rate_limit, now)
          ref == g.rate_limiters[source]
          a == RateLimiterAllow(g.limiters[ref], default_rate_limit, now)
          objs == [g.limiters EXCEPT ![ref] = a.lim]
      IN IF ~a.ok
         THEN Outcome(FALSE, "rate_limit", message_id, channels, c.ids, c.ts,
                      g.rate_limiters, objs, subscribers, <<>>)
         ELSE
           LET i == Insert(channel, data, source, message_id, channels, c.ids, c.ts,
                           subscribers, now)
           IN Outcome(TRUE, "accepted", message_id, i.channels, i.recent_ids,
                      i.recent_timestamps, g.rate_limiters, objs, i.subscribers,
                      i.invoked)

\* EventBus.xadd_json(channel, data, source) run without interleaving at `now`
xadd_json(channel, data, source) ==
    LET message_id == MessageId(channel, data, now)
        pre == Precheck(channel, data, now)
    IN
    IF pre # "checked"
    THEN Outcome(FALSE, pre, message_id, channels, recent_ids, recent_timestamps,
                 rate_limiters, limiters, subscribers, <<>>)
    ELSE
      LET g == GetRateLimiter(source, rate_limiters, limiters, default_rate_limit, now)
          ref == g.rate_limiters[source]
          a == RateLimiterAllow(g.limiters[ref], default_rate_limit, now)
          objs == [g.limiters EXCEPT ![ref] = a.lim]
      IN IF ~a.ok
         THEN Outcome(FALSE, "rate_limit", message_id, channels, recent_ids,
                      recent_timestamps, g.rate_limiters, objs, subscribers, <<>>)
         ELSE
           LET c == CleanupRecent(recent_ids, recent_timestamps, max_recent_items, now) IN
           IF message_id \in c.ids
           THEN Outcome(FALSE, "duplicate", message_id, channels, c.ids, c.ts,
                        g.rate_limiters, objs, subscribers, <<>>)
           ELSE
             LET i == Insert(channel, data, source, message_id, channels, c.ids, c.ts,
                             subscribers, now)
             IN Outcome(TRUE, "accepted", message_id, i.channels, i.recent_ids,
                        i.recent_timestamps, g.rate_limiters, objs, i.subscribers,
                        i.invoked)

\* ---------------------------------------------------------------- history
\* The item lacks a required field or its published does not parse (stated on
\* the dict itself, for the record of the call).
LacksRequired(data) ==
    \/ \E f \in {"title", "link", "source", "publisher"} : f \notin DOMAIN data \/ data[f] = ""
    \/ "published" \notin DOMAIN data
    \/ data["published"].kind \in {"empty", "bad"}

LogAccept(log, id, t) ==
    Append(SeqFilterIds(log, KeysOf(log) \ {id}), [id |-> id, ts |-> t])

Call(op, channel, source, id, lacks, result, reason, invoked, limit, out) ==
    [op |-> op, channel |-> channel, source |-> source, id |-> id, lacks |-> lacks,
     result |-> result, reason |-> reason, invoked |-> invoked, limit |-> limit,
     out |-> out]

\* the attempts of `source` that reached its rate limiter while no time has
\* passed since the limiter was created
BurstAfter(b, source, id, accepted, fresh, t) ==
    IF source \notin DOMAIN b
    THEN [s \in DOMAIN b \cup {source} |->
            IF s = source
            THEN [at |-> t, ids |-> {id}, accepted |-> IF accepted THEN 1 ELSE 0,
                  distinct |-> fresh]
            ELSE b[s]]
    ELSE IF b[source].at # t THEN b
    ELSE [b EXCEPT ![source] =
            [at |-> t, ids |-> @.ids \cup {id},
             accepted |-> @.accepted + (IF accepted THEN 1 ELSE 0),
             distinct |-> @.distinct /\ fresh /\ id \notin @.ids]]

\* what a call of xadd_json does to the bus and to the record of its calls
XaddJsonEffect(channel, data, source) ==
    /\ calls < MaxCalls
    /\ LET r == xadd_json(channel, data, source) IN
         /\ channels' = r.channels
         /\ recent_ids' = r.recent_ids
         /\ recent_timestamps' = r.recent_timestamps
         /\ rate_limiters' = r.rate_limiters
         /\ limiters' = r.limiters
         /\ subscribers' = r.subscribers
         /\ last' = Call("xadd_json", channel, source, r.id, LacksRequired(data), r.result,
                         r.reason, r.invoked, 0, <<>>)
         /\ accept_log' = IF r.result THEN LogAccept(accept_log, r.id, now) ELSE accept_log
         /\ burst' = IF r.reason \in {"invalid", "missing_id"} THEN burst
                     ELSE BurstAfter(burst, source, r.id, r.result,
                                     r.id \notin KeysOf(accept_log), now)
    /\ calls' = calls + 1

XaddJson(channel, data, source) ==
    /\ XaddJsonEffect(channel, data, source)
    /\ UNCHANGED <<now, configVars, offBus, threadVars>>

\* ---------------------------------------------------- get_recent_messages
RECURSIVE Reverse(_)
Reverse(s) == IF s = <<>> THEN <<>> ELSE Append(Reverse(Tail(s)), Head(s))

\* list[:limit] for limit >= 0
Take(s, n) == SubSeq(s, 1, Min(n, Len(s)))

\* EventBus.get_recent_messages: what it returns and the channel table afterwards
get_recent_messages(channel, limit) ==
    LET ch == DefaultGet(channels, channel, <<>>)
        messages == Take(Reverse(ch[channel]), limit)
    IN [channels |-> ch, out |-> [i \in 1..Len(messages) |-> messages[i].data]]

GetRecentMessages(channel, limit) ==
    /\ calls < MaxCalls
    /\ LET r == get_recent_messages(channel, limit) IN
         /\ channels' = r.channels
         /\ last' = Call("get_recent_messages", channel, "", "", FALSE, TRUE, "", <<>>,
                         limit, r.out)
    /\ calls' = calls + 1
    /\ UNCHANGED <<now, configVars, offBus, recent_ids, recent_timestamps, rate_limiters, limiters,
                   subscribers, accept_log, burst, threadVars>>

\* EventBus.get_stats
get_stats ==
    [channels |-> [c \in DOMAIN channels |-> Len(channels[c])],
     recent_ids_count |-> Cardinality(recent_ids),
     rate_limiters |-> [s \in DOMAIN rate_limiters |-> limiters[rate_limiters[s]].tokens],
     subscribers |-> [c \in DOMAIN subscribers |-> Len(subscribers[c])]]

\* -------------------------------------------------------------- subscribe
\* EventBus.subscribe
Subscribe(channel, callback) ==
    /\ calls < MaxCalls
    /\ LET subs == DefaultGet(subscribers, channel, <<>>) IN
         /\ Len(subs[channel]) < MaxSubs
         /\ subscribers' = [subs EXCEPT ![channel] = Append(@, callback)]
    /\ last' = Call("subscribe", channel, "", "", FALSE, TRUE, "", <<>>, 0, <<>>)
    /\ calls' = calls + 1
    /\ UNCHANGED <<now, configVars, offBus, channels, recent_ids, recent_timestamps, rate_limiters,
                   limiters, accept_log, burst, threadVars>>

\* ------------------------------------------------------------------- time
Tick ==
    /\ now < MaxTime
    /\ now' = now + 1
    /\ UNCHANGED <<configVars, offBus, busVars, histVars, threadVars>>

\* ------------------------------------------------- concurrent publishers
\* xadd_json called from several threads (xadd_json_async runs it in the
\* executor's thread pool).  A thread can be preempted between any two
\* statements; the bodies of `with self._lock` run as one step each.
Threads == 1..NThreads

NoArgs == [id |-> "", source |-> ""]
NoResult == [done |-> FALSE, result |-> FALSE, reason |-> ""]
Returned(result, reason) == [done |-> TRUE, result |-> result, reason |-> reason]

\* validation and message id (lines 156-167), no shared state touched
TCall(t, data, source) ==
    /\ pc[t] = "idle"
    /\ targs' = [targs EXCEPT ![t] = [id |-> MessageId("news.raw", data, now), source |-> source]]
    /\ LET pre == Precheck("news.raw", data, now) IN
         IF pre = "checked"
         THEN pc' = [pc EXCEPT ![t] = "limiter_check"] /\ tres' = tres
         ELSE pc' = [pc EXCEPT ![t] = "done"] /\ tres' = [tres EXCEPT ![t] = Returned(FALSE, pre)]
    /\ UNCHANGED <<now, configVars, offBus, busVars, histVars, tref>>

\* _get_rate_limiter: `if source not in self.rate_limiters`
TLimiterCheck(t) ==
    /\ pc[t] = "limiter_check"
    /\ pc' = [pc EXCEPT ![t] = IF targs[t].source \in DOMAIN rate_limiters
                                THEN "limiter_get" ELSE "limiter_create"]
    /\ UNCHANGED <<now, configVars, offBus, busVars, histVars, targs, tref, tres>>

\* _get_rate_limiter: `self.rate_limiters[source] = RateLimiter(...)`
TLimiterCreate(t) ==
    /\ pc[t] = "limiter_create"
    /\ LET g == LimiterCreate(targs[t].source, rate_limiters, limiters, default_rate_limit, now) IN
         /\ rate_limiters' = g.rate_limiters
         /\ limiters' = g.limiters
    /\ pc' = [pc EXCEPT ![t] = "limiter_get"]
    /\ UNCHANGED <<now, configVars, offBus, channels, recent_ids, recent_timestamps, subscribers,
                   histVars, targs, tref, tres>>

\* _get_rate_limiter: `return self.rate_limiters[source]`
TLimiterGet(t) ==
    /\ pc[t] = "limiter_get"
    /\ tref' = [tref EXCEPT ![t] = rate_limiters[targs[t].source]]
    /\ pc' = [pc EXCEPT ![t] = "allow"]
    /\ UNCHANGED <<now, configVars, offBus, busVars, histVars, targs, tres>>

\* rate_limiter.allow(), under the limiter's own lock
TAllow(t) ==
    /\ pc[t] = "allow"
    /\ LET a == RateLimiterAllow(limiters[tref[t]], default_rate_limit, now) IN
         /\ limiters' = [limiters EXCEPT ![tref[t]] = a.lim]
         /\ IF a.ok
            THEN pc' = [pc EXCEPT ![t] = "seen"] /\ tres' = tres
            ELSE /\ pc' = [pc EXCEPT ![t] = "done"]
                 /\ tres' = [tres EXCEPT ![t] = Returned(FALSE, "rate_limit")]
    /\ UNCHANGED <<now, configVars, offBus, channels, recent_ids, recent_timestamps, rate_limiters,
                   subscribers, histVars, targs, tref>>

\* self.seen_recent(message_id), under the bus lock
TSeen(t) ==
    /\ pc[t] = "seen"
    /\ LET c == CleanupRecent(recent_ids, recent_timestamps, max_recent_items, now) IN
         /\ recent_ids' = c.ids
         /\ recent_timestamps' = c.ts
         /\ IF targs[t].id \in c.ids
            THEN /\ pc' = [pc EXCEPT ![t] = "done"]
                 /\ tres' = [tres EXCEPT ![t] = Returned(FALSE, "duplicate")]
            ELSE pc' = [pc EXCEPT ![t] = "insert"] /\ tres' = tres
    /\ UNCHANGED <<now, configVars, offBus, channels, rate_limiters, limiters, subscribers,
                   histVars, targs, tref>>

\* the `with self._lock` block of xadd_json: append, mark seen, notify
TInsert(t) ==
    /\ pc[t] = "insert"
    /\ LET i == Insert("news.raw", ValidItem(targs[t].id), targs[t].source, targs[t].id,
                       channels, recent_ids, recent_timestamps, subscribers, now) IN
         /\ channels' = i.channels
         /\ recent_ids' = i.recent_ids
         /\ recent_timestamps' = i.recent_timestamps
         /\ subscribers' = i.subscribers
    /\ pc' = [pc EXCEPT ![t] = "done"]
    /\ tres' = [tres EXCEPT ![t] = Returned(TRUE, "accepted")]
    /\ UNCHANGED <<now, configVars, offBus, rate_limiters, limiters, histVars, targs, tref>>

\* ------------------------------------------------------- RawItem.make_id
\* published strings: minute, second and microsecond of one day, with no
\* designator, "Z", "+00:00" or "+05:00"; or a string that does not parse
Designators == {"", "Z", "+00:00", "+05:00"}
PublishedStrings ==
    {Published("dt", m, s, u, z) :
        m \in 0..MaxMinute, s \in {0, 45}, u \in {0, 7}, z \in Designators}
    \cup {PubBad}

Links == {"http://x/1", "http://x/2"}
Titles == {"A", "B"}
Origins ==
    {[source |-> "websocket:s1", publisher |-> "P1"],
     [source |-> "webhook:s2", publisher |-> "P2"]}

RawItems ==
    {[title |-> t, link |-> l, published |-> p, source |-> o.source,
      publisher |-> o.publisher] : t \in Titles, l \in Links,
                                   p \in PublishedStrings, o \in Origins}

NoItem == [title |-> "", link |-> "", published |-> PubEmpty, source |-> "", publisher |-> ""]

\* dateutil parser.parse of a string that parses: "Z" and "+00:00" both give
\* tzutc, no designator gives a naive datetime
ParseDate(p) ==
    [minute |-> p.minute, second |-> p.second, micro |-> p.micro,
     utcoffset |-> IF p.tz = "Z" THEN "+00:00" ELSE p.tz]

\* datetime.isoformat() within the day: HH:MM:SS[.ffffff][+HH:MM]
Isoformat(dt) ==
    "T00:" \o ToString(dt.minute) \o ":" \o ToString(dt.second)
        \o (IF dt.micro # 0 THEN "." \o ToString(dt.micro) ELSE "")
        \o dt.utcoffset

\* _normalize_published_for_id without replace(second=0, microsecond=0)
normalize_published_for_id_KeepSeconds(published) ==
    IF published.kind = "empty" THEN ""
    ELSE IF ~Parseable(published) THEN ""
    ELSE Isoformat(ParseDate(published))

normalize_published_for_id(published) ==
    IF published.kind = "empty" THEN ""
    ELSE IF ~Parseable(published) THEN ""
    ELSE Isoformat([ParseDate(published) EXCEPT !.second = 0, !.micro = 0])

\* hashlib.sha256(content.encode('utf-8')).hexdigest()[:16] of a content
\* string: equal contents give equal digests, different contents different ones
Sha256Hex16(content) == <<"sha256", content>>

make_id(item) ==
    Sha256Hex16(item.link \o "|" \o item.title \o "|"
                    \o normalize_published_for_id(item.published))

\* RawItem(id='', ...).__post_init__ of the two items
MakeIds ==
    /\ made = <<>>
    /\ item_a # NoItem
    /\ made' = [a |-> make_id(item_a), b |-> make_id(item_b)]
    /\ UNCHANGED <<item_a, item_b, now, configVars, busVars, histVars, threadVars, schedVars,
                   hookVars, extVars>>

IdIdle == item_a = NoItem /\ item_b = NoItem /\ made = <<>>

\* ---------------------------------- AdaptiveFeedWorker's RawItem.generate_id
\* the characters of a published string
PublishedText(p) ==
    IF p.kind = "dt"
    THEN Isoformat([minute |-> p.minute, second |-> p.second, micro |-> p.micro,
                    utcoffset |-> p.tz])
    ELSE IF p.kind = "bad" THEN "not a date" ELSE ""

\* the string published_dt.isoformat() gives for a parsed datetime
IsoformatString(dt) == Published("dt", dt.minute, dt.second, dt.micro, dt.utcoffset)

\* datetime.now(timezone.utc) when an entry is extracted: the minute of the
\* clock and whatever second and microsecond the call falls on
ClockReadings ==
    {[minute |-> now, second |-> s, micro |-> u, utcoffset |-> "+00:00"] :
        s \in {0, 45}, u \in {0, 7}}

\* _extract_item_data: title, link and the feed's names as they are, published
\* parsed and formatted again, or the clock when it is absent or does not parse
extract_item_data(entry, clock) ==
    [title |-> entry.title, link |-> entry.link,
     published |-> IF entry.published.kind # "empty" /\ Parseable(entry.published)
                   THEN IsoformatString(ParseDate(entry.published))
                   ELSE IsoformatString(clock),
     source |-> entry.source, publisher |-> entry.publisher]

\* RawItem.generate_id of the worker: sha256 of title + link + published
generate_id(item) ==
    Sha256Hex16(item.title \o item.link \o PublishedText(item.published))

\* _parse_feed_content over a feed of the two entries: each one is extracted,
\* given its id by __post_init__ and kept when the id is not in seen_items
ExtractItems ==
    /\ made = <<>>
    /\ item_a # NoItem
    /\ \E clock_a, clock_b \in ClockReadings :
         LET a == extract_item_data(item_a, clock_a)
             b == extract_item_data(item_b, clock_b)
             id_a == generate_id(a)
             id_b == generate_id(b)
             new_a == id_a \notin seen_items
             new_b == id_b \notin seen_items \cup {id_a}
         IN /\ made' = [a |-> id_a, b |-> id_b, raw_a |-> a, raw_b |-> b,
                        new_items |-> (IF new_a THEN 1 ELSE 0) + (IF new_b THEN 1 ELSE 0)]
            /\ seen_items' = seen_items \cup {id_a, id_b}
    /\ UNCHANGED <<item_a, item_b, now, configVars, busVars, histVars, threadVars,
                   host_states, sched_now, cycle, cycles, feed_data, not_modified_run, feed_validators,
                   hookVars, extVars>>

\* ---------------------------------------------------- AdaptiveFeedWorker
\* RealtimeSettings defaults, in seconds
poll_baseline_seconds == 60
poll_min_seconds == 30
poll_max_seconds == 900
backoff_base == 30
backoff_factor == 2
jitter_range_seconds == {0, 5}
stagger_startup_seconds == {0, 10}

\* Intervals and times are counted in 1/Scale seconds, so that MaxCycles
\* multiplications by 0.9 or 1.1 stay exact.
RECURSIVE Pow10(_)
Pow10(n) == IF n = 0 THEN 1 ELSE 10 * Pow10(n - 1)
Scale == Pow10(MaxCycles)

Hosts == {"a.example", "b.example"}
feeds_by_host == [h \in Hosts |-> IF h = "a.example" THEN <<"a/rss", "a/atom">> ELSE <<"b/rss">>]

\* ids of the entries feeds carry, and the lists of entries a body parses to
EntryIds == {"e1", "e2"}
Bodies == {<<>>, <<"e1">>, <<"e2">>, <<"e1", "e2">>}
max_items_per_feed == 100

\* What a GET of a feed comes back with: a status (0 for a timeout or client
\* error, which _fetch_feed reports as None), the entries its body parses to,
\* the Retry-After header in seconds (0 when absent) and the ETag and
\* Last-Modified headers ("" when absent).
Response(status, entries, retry_after, etag, last_modified) ==
    [status |-> status, entries |-> entries, retry_after |-> retry_after,
     etag |-> etag, last_modified |-> last_modified]
Responses ==
    {Response(200, <<"e1">>, 0, "", ""), Response(200, <<"e2">>, 0, "", ""),
     Response(200, <<>>, 0, "", ""), Response(304, <<>>, 0, "", ""),
     Response(429, <<>>, 0, "", ""), Response(429, <<>>, 600, "", ""),
     Response(403, <<>>, 0, "", ""), Response(404, <<>>, 0, "", ""),
     Response(500, <<>>, 0, "", ""), Response(0, <<>>, 0, "", "")}

HostState(next_due, interval) ==
    [next_due |-> next_due, interval |-> interval, etag |-> "", last_modified |-> "",
     consecutive_ok |-> 0, consecutive_fail |-> 0, backoff_logged |-> FALSE]

\* the validators of a 200 response ("" when the header is absent)
Validators(etag, last_modified) == [etag |-> etag, last_modified |-> last_modified]
NoValidators == Validators("", "")

\* the conditional headers _fetch_feed builds from the host state
RequestHeaders(state) == [if_none_match |-> state.etag, if_modified_since |-> state.last_modified]

Pending == [done |-> FALSE, status |-> 0, new_items |-> 0]
Fetched(status, new_items) == [done |-> TRUE, status |-> status, new_items |-> new_items]
\* no response received yet
NothingReceived == Response(0, <<>>, 0, "", "")
NoCycle ==
    [active |-> FALSE, now |-> 0, started_with |-> 0, retry_after |-> 0, sent |-> <<>>,
     received |-> <<>>, results |-> <<>>]

\* the entries of a body that are not in the seen set, each once, in order
RECURSIVE NewEntries(_, _)
NewEntries(entries, seen) ==
    IF entries = <<>> THEN <<>>
    ELSE IF Head(entries) \in seen THEN NewEntries(Tail(entries), seen)
    ELSE <<Head(entries)>> \o NewEntries(Tail(entries), seen \cup {Head(entries)})

\* _save_items: new items go to the front of the file, which keeps 1000 items
save_items(items, data) == SubSeq(items \o data, 1, Min(1000, Len(items) + Len(data)))

\* _parse_feed_content that marks and counts the new items without saving them
parse_feed_content_NotSaved(entries, seen, data) ==
    LET new_items == NewEntries(SubSeq(entries, 1, Min(max_items_per_feed, Len(entries))), seen)
    IN [count |-> Len(new_items), seen |-> seen \cup Range(new_items), data |-> data]

\* _parse_feed_content: the number of new items, the seen set and the file it leaves
parse_feed_content(entries, seen, data) ==
    LET new_items == NewEntries(SubSeq(entries, 1, Min(max_items_per_feed, Len(entries))), seen)
    IN [count |-> Len(new_items),
        seen |-> seen \cup Range(new_items),
        data |-> IF new_items # <<>> THEN save_items(new_items, data) ELSE data]

\* _fetch_feed that does not store the validators of a 200 response
fetch_feed_KeepsOldValidators(state, seen, data, response) ==
    IF response.status = 304 THEN
        [state |-> state, seen |-> seen, data |-> data, result |-> Fetched(304, 0)]
    ELSE IF response.status = 200 THEN
        LET p == parse_feed_content(response.entries, seen, data) IN
        [state |-> state, seen |-> p.seen, data |-> p.data, result |-> Fetched(200, p.count)]
    ELSE IF response.status = 429 /\ response.retry_after # 0 THEN
        [state |-> [state EXCEPT !.interval = Max(response.retry_after * Scale, @)],
         seen |-> seen, data |-> data, result |-> Fetched(429, 0)]
    ELSE [state |-> state, seen |-> seen, data |-> data, result |-> Fetched(response.status, 0)]

\* _fetch_feed: the host state, seen set and file it leaves and the
\* (status, new_items) it returns
fetch_feed(state, seen, data, response) ==
    IF response.status = 304 THEN
        [state |-> state, seen |-> seen, data |-> data, result |-> Fetched(304, 0)]
    ELSE IF response.status = 200 THEN
        LET p == parse_feed_content(response.entries, seen, data) IN
        [state |-> [state EXCEPT !.etag = response.etag,
                                 !.last_modified = response.last_modified],
         seen |-> p.seen, data |-> p.data, result |-> Fetched(200, p.count)]
    ELSE IF response.status = 429 /\ response.retry_after # 0 THEN
        [state |-> [state EXCEPT !.interval = Max(response.retry_after * Scale, @)],
         seen |-> seen, data |-> data, result |-> Fetched(429, 0)]
    ELSE [state |-> state, seen |-> seen, data |-> data, result |-> Fetched(response.status, 0)]

RECURSIVE SumNew(_)
SumNew(results) ==
    IF results = <<>> THEN 0 ELSE Head(results).new_items + SumNew(Tail(results))

StatusCodes(results) == [i \in 1..Len(results) |-> results[i].status]
AnyCode(codes, matching) == \E i \in 1..Len(codes) : codes[i] \in matching

\* the row "success + new items" of _update_host_state
SpeedUp(interval) == Max(poll_min_seconds * Scale, (interval * 9) \div 10)

\* the row "no new content" without its limit of twice the baseline
SlowDown_NoCap(interval) == (interval * 11) \div 10

\* the row "no new content" of _update_host_state
SlowDown(interval) == Min((interval * 11) \div 10, 2 * poll_baseline_seconds * Scale)

\* the exponential backoff of _update_host_state and _handle_host_error
Backoff(interval) ==
    Min(Max(interval, backoff_base * Scale) * backoff_factor, poll_max_seconds * Scale)

\* _update_host_state
update_host_state(state, status_codes, new_items, t, jitter) ==
    LET has_success == AnyCode(status_codes, {200})
        has_not_modified == AnyCode(status_codes, {304})
        has_rate_limit == AnyCode(status_codes, {429})
        has_forbidden == AnyCode(status_codes, {403})
        has_server_error == AnyCode(status_codes, 500..599)
        has_client_error == AnyCode(status_codes, {0})
        ok == has_success \/ has_not_modified
        backoff == has_rate_limit \/ has_forbidden \/ has_server_error \/ has_client_error
        interval ==
            IF has_success /\ new_items > 0 THEN SpeedUp(state.interval)
            ELSE IF has_not_modified \/ (has_success /\ new_items = 0) THEN SlowDown(state.interval)
            ELSE IF backoff THEN Backoff(state.interval)
            ELSE state.interval
    IN [next_due |-> t + interval + jitter * Scale,
        interval |-> interval,
        etag |-> state.etag,
        last_modified |-> state.last_modified,
        consecutive_ok |-> IF ok THEN state.consecutive_ok + 1
                           ELSE IF state.consecutive_fail + 1 = 1 THEN 0
                           ELSE state.consecutive_ok,
        consecutive_fail |-> IF ok THEN 0 ELSE state.consecutive_fail + 1,
        backoff_logged |-> IF ok THEN FALSE
                           ELSE IF backoff THEN TRUE
                           ELSE state.backoff_logged]

\* _handle_host_error that counts the failure and backs off without setting
\* next_due
handle_host_error_NoReschedule(state, t, jitter) ==
    [state EXCEPT !.consecutive_fail = @ + 1,
                  !.consecutive_ok = 0,
                  !.interval = Backoff(state.interval)]

\* _handle_host_error
handle_host_error(state, t, jitter) ==
    LET interval == Backoff(state.interval)
    IN [state EXCEPT !.consecutive_fail = @ + 1,
                     !.consecutive_ok = 0,
                     !.interval = interval,
                     !.next_due = t + interval + jitter * Scale]

Idle(h) == ~cycle[h].active
AllFetched(h) == \A i \in 1..Len(cycle[h].results) : cycle[h].results[i].done
AllNotModified(results) == \A i \in 1..Len(results) : results[i].status = 304

\* _tick finds the host due and _poll_host starts the _fetch_feed tasks of its
\* feeds, each of which builds its request headers before the first response
PollHost(h) ==
    /\ cycles < MaxCycles
    /\ Idle(h)
    /\ sched_now >= host_states[h].next_due
    /\ cycle' = [cycle EXCEPT ![h] =
                    [active |-> TRUE, now |-> sched_now,
                     started_with |-> host_states[h].interval, retry_after |-> 0,
                     sent |-> [i \in 1..Len(feeds_by_host[h]) |-> RequestHeaders(host_states[h])],
                     received |-> [i \in 1..Len(feeds_by_host[h]) |-> NothingReceived],
                     results |-> [i \in 1..Len(feeds_by_host[h]) |-> Pending]]]
    /\ cycles' = cycles + 1
    /\ UNCHANGED <<host_states, sched_now, seen_items, feed_data, not_modified_run, feed_validators,
                   now, configVars, busVars, histVars, threadVars, idVars, hookVars, extVars>>

\* one _fetch_feed task of the cycle completes
FetchFeed(h, i, response) ==
    /\ cycle[h].active
    /\ ~cycle[h].results[i].done
    /\ LET r == fetch_feed(host_states[h], seen_items, feed_data, response) IN
         /\ host_states' = [host_states EXCEPT ![h] = r.state]
         /\ seen_items' = r.seen
         /\ feed_data' = r.data
         /\ cycle' = [cycle EXCEPT ![h].results[i] = r.result,
                                   ![h].received[i] = response,
                                   ![h].retry_after =
                                       IF response.status = 429 THEN Max(@, response.retry_after) ELSE @]
    /\ feed_validators' =
          IF response.status = 200
          THEN [feed_validators EXCEPT ![h][i] = Validators(response.etag, response.last_modified)]
          ELSE feed_validators
    /\ UNCHANGED <<sched_now, cycles, not_modified_run,
                   now, configVars, busVars, histVars, threadVars, idVars, hookVars, extVars>>

\* the gather of the cycle returned: _poll_host totals the results and calls
\* _update_host_state
UpdateHostState(h, jitter) ==
    /\ cycle[h].active
    /\ AllFetched(h)
    /\ host_states' =
          [host_states EXCEPT ![h] =
              update_host_state(@, StatusCodes(cycle[h].results),
                                SumNew(cycle[h].results), cycle[h].now, jitter)]
    /\ not_modified_run' =
          [not_modified_run EXCEPT ![h] = IF AllNotModified(cycle[h].results) THEN @ + 1 ELSE 0]
    /\ cycle' = [cycle EXCEPT ![h] = NoCycle]
    /\ UNCHANGED <<sched_now, cycles, seen_items, feed_data, feed_validators,
                   now, configVars, busVars, histVars, threadVars, idVars, hookVars, extVars>>

\* _update_host_state raises, on entry or after it has rescheduled the host,
\* and _poll_host hands the host to _handle_host_error
UpdateHostStateRaises(h, late, jitter) ==
    /\ cycle[h].active
    /\ AllFetched(h)
    /\ LET reached == IF late
                      THEN update_host_state(host_states[h], StatusCodes(cycle[h].results),
                                             SumNew(cycle[h].results), cycle[h].now, jitter)
                      ELSE host_states[h]
       IN host_states' = [host_states EXCEPT ![h] = handle_host_error(reached, cycle[h].now, jitter)]
    /\ not_modified_run' = [not_modified_run EXCEPT ![h] = 0]
    /\ cycle' = [cycle EXCEPT ![h] = NoCycle]
    /\ UNCHANGED <<sched_now, cycles, seen_items, feed_data, feed_validators,
                   now, configVars, busVars, histVars, threadVars, idVars, hookVars, extVars>>

\* the polling loop sleeps until a host is due
SchedSleep ==
    /\ \A h \in DOMAIN host_states : Idle(h) /\ host_states[h].next_due > sched_now
    /\ \E h \in DOMAIN host_states : sched_now' = host_states[h].next_due
    /\ UNCHANGED <<host_states, cycle, cycles, seen_items, feed_data, not_modified_run, feed_validators,
                   now, configVars, busVars, histVars, threadVars, idVars, hookVars, extVars>>

\* _initialize_host_states for feed sources that name the given hosts, with
\* a startup delay per host
SchedInit(hosts) ==
    /\ sched_now = 0
    /\ host_states \in [hosts -> {HostState(d * Scale, poll_baseline_seconds * Scale) :
                                    d \in stagger_startup_seconds}]
    /\ cycle = [h \in hosts |-> NoCycle]
    /\ cycles = 0
    /\ seen_items = {}
    /\ feed_data = <<>>
    /\ not_modified_run = [h \in hosts |-> 0]
    /\ feed_validators = [h \in hosts |-> [i \in 1..Len(feeds_by_host[h]) |-> NoValidators]]

SchedIdle ==
    /\ sched_now = 0
    /\ host_states = <<>>
    /\ cycle = <<>>
    /\ cycles = 0
    /\ seen_items = {}
    /\ feed_data = <<>>
    /\ not_modified_run = <<>>
    /\ feed_validators = <<>>

\* ------------------------------------------------------- webhook receiver
\* A header value is a string, kept as the sequence of its parts: a prefix,
\* a hex digest or other text.  hmac.new(secret, body, sha256).hexdigest() is
\* one part, a different one for every secret and body.
Text(t) == [text |-> t, key |-> "", body |-> ""]
HexDigest(secret, body) == [text |-> "hexdigest", key |-> secret, body |-> body]
Secrets == {"", "s1", "s2"}
BodyBytes == {"story1", "story2"}
SignatureParts ==
    {Text("sha256="), Text("v0="), Text("invalid_signature_hash"), Text("non-ascii")}
       \cup {HexDigest(k, b) : k \in Secrets \ {""}, b \in BodyBytes}
Signatures == UNION {[1..n -> SignatureParts] : n \in 0..MaxSigLen}

\* what a call returned, or that it raised
Result(value) == [raised |-> FALSE, value |-> value]
Raised == [raised |-> TRUE, value |-> FALSE]

\* hmac.compare_digest of two str: TypeError when one holds a non-ASCII character
compare_digest(a, b) ==
    IF Text("non-ascii") \in Range(a) \cup Range(b) THEN Raised ELSE Result(a = b)

\* validate_signature that accepts every non-empty signature
validate_signature_NonEmpty(payload_body, signature, secret) ==
    Result(secret # "" /\ signature # <<>>)

\* validate_signature that accepts nothing
validate_signature_Never(payload_body, signature, secret) == Result(FALSE)

\* validate_signature that knows the sha256= prefix only
validate_signature_NoSlackPrefix(payload_body, signature, secret) ==
    IF secret = "" \/ signature = <<>> THEN Result(FALSE)
    ELSE LET provided_hash == IF Head(signature) = Text("sha256=") THEN Tail(signature)
                              ELSE signature
             compared == compare_digest(<<HexDigest(secret, payload_body)>>, provided_hash)
         IN IF compared.raised THEN Result(FALSE) ELSE compared

validate_signature(payload_body, signature, secret) ==
    IF secret = "" \/ signature = <<>> THEN Result(FALSE)
    ELSE LET provided_hash == IF Head(signature) = Text("sha256=") THEN Tail(signature)
                              ELSE IF Head(signature) = Text("v0=") THEN Tail(signature)
                              ELSE signature
             expected_hash == <<HexDigest(secret, payload_body)>>
             compared == compare_digest(expected_hash, provided_hash)
         IN IF compared.raised THEN Result(FALSE) ELSE compared

NoSigCall == [body |-> "", signature |-> <<>>, secret |-> "", done |-> FALSE,
              result |-> Result(FALSE)]

\* a caller runs validate_signature on its arguments
ValidateSignature ==
    /\ ~sig_call.done
    /\ sig_call' = [sig_call EXCEPT
                      !.done = TRUE,
                      !.result = validate_signature(sig_call.body, sig_call.signature,
                                                    sig_call.secret)]
    /\ UNCHANGED <<webhook_secret, background_tasks, webhook_stats, last_request,
                   now, configVars, busVars, histVars, threadVars, idVars, schedVars, extVars>>

\* Request bodies: bytes that are not JSON, and JSON payloads the mapper
\* raises on, maps to nothing, maps to an item without a parseable date, or
\* maps to one of two stories.
WebhookBodies == {"not-json", "raises", "unmappable", "undated", "story1", "story2"}
ParsesAsJson(body) == body # "not-json"
\* map_webhook_payload_to_raw(payload, headers), as process_webhook_payload sees it
webhook_raw_item(payload) ==
    CASE payload = "raises" -> [raised |-> TRUE, none |-> TRUE, item |-> <<>>]
      [] payload = "unmappable" -> [raised |-> FALSE, none |-> TRUE, item |-> <<>>]
      [] payload = "undated" ->
            [raised |-> FALSE, none |-> FALSE,
             item |-> [ValidItem(IdOf(1)) EXCEPT !.published = PubBad]]
      [] payload = "story1" -> [raised |-> FALSE, none |-> FALSE, item |-> ValidItem(IdOf(1))]
      [] OTHER -> [raised |-> FALSE, none |-> FALSE, item |-> ValidItem(IdOf(2))]

\* the headers of a POST that carry a signature or name the vendor; an absent
\* header is the empty value
Request(x_signature, x_hub_signature_256, x_slack_signature, authorization, x_vendor, body) ==
    [x_signature |-> x_signature, x_hub_signature_256 |-> x_hub_signature_256,
     x_slack_signature |-> x_slack_signature, authorization |-> authorization,
     x_vendor |-> x_vendor, body |-> body]
\* requests of a sender that signs the body with the key s1 in one of the
\* three forms, sends no signature, or sends one that is not the digest
WebhookRequests ==
    UNION {{Request(<<>>, <<>>, <<>>, <<>>, v, b),
            Request(<<Text("invalid_signature_hash")>>, <<>>, <<>>, <<>>, v, b),
            Request(<<>>, <<Text("sha256="), HexDigest("s1", b)>>, <<>>, <<>>, v, b),
            Request(<<Text("invalid_signature_hash")>>, <<Text("sha256="), HexDigest("s1", b)>>,
                    <<>>, <<>>, v, b),
            Request(<<>>, <<>>, <<Text("v0="), HexDigest("s1", b)>>, <<>>, v, b),
            Request(<<>>, <<>>, <<>>, <<HexDigest("s1", b)>>, v, b)} :
           v \in {"", "acme"}, b \in WebhookBodies}

\* x_vendor or extract_vendor_from_headers(headers), for requests with no
\* other header that names a vendor
VendorOf(request) == IF request.x_vendor # "" THEN request.x_vendor ELSE "unknown"
\* the first signature header that is present
SignatureOf(request) ==
    IF request.x_signature # <<>> THEN request.x_signature
    ELSE IF request.x_hub_signature_256 # <<>> THEN request.x_hub_signature_256
    ELSE IF request.x_slack_signature # <<>> THEN request.x_slack_signature
    ELSE request.authorization

VendorStats(requests, valid, errors) == [requests |-> requests, valid |-> valid, errors |-> errors]
\* WebhookStats.record_request
record_request(stats, vendor) ==
    [stats EXCEPT !.total_requests = @ + 1,
                  !.vendor_stats =
                      IF vendor \in DOMAIN @
                      THEN [@ EXCEPT ![vendor].requests = @ + 1]
                      ELSE [v \in DOMAIN @ \cup {vendor} |->
                              IF v = vendor THEN VendorStats(1, 0, 0) ELSE @[v]]]
\* WebhookStats.record_valid
record_valid(stats, vendor) ==
    [stats EXCEPT !.valid_requests = @ + 1, !.vendor_stats[vendor].valid = @ + 1]
\* WebhookStats.record_error
record_error(stats, error_type, vendor) ==
    LET counted == IF error_type = "invalid_signature"
                   THEN [stats EXCEPT !.invalid_signatures = @ + 1]
                   ELSE IF error_type = "mapping_error"
                   THEN [stats EXCEPT !.mapping_errors = @ + 1]
                   ELSE IF error_type = "rate_limited"
                   THEN [stats EXCEPT !.rate_limited = @ + 1]
                   ELSE stats
    IN IF vendor \in DOMAIN stats.vendor_stats
       THEN [counted EXCEPT !.vendor_stats[vendor].errors = @ + 1]
       ELSE counted

\* the HTTP answer of the endpoint
HttpResponse(status_code, detail) == [status_code |-> status_code, detail |-> detail]
\* WebhookResponse(status="accepted", ...) sent with 200
Accepted == HttpResponse(200, "accepted")
Handled(request, response, parsed) ==
    [request |-> request, response |-> response, parsed |-> parsed]
Task(payload, vendor) == [payload |-> payload, vendor |-> vendor]

\* POST /push/inbound
ReceiveWebhook(request) ==
    /\ webhook_stats.total_requests < MaxRequests
    /\ LET vendor == VendorOf(request)
           signature == SignatureOf(request)
           counted == record_request(webhook_stats, vendor)
       IN
       IF webhook_secret # "" /\ signature = <<>> THEN
           /\ webhook_stats' = record_error(counted, "invalid_signature", vendor)
           /\ last_request' = Handled(request, HttpResponse(401, "Missing signature"), FALSE)
           /\ UNCHANGED background_tasks
       ELSE IF /\ webhook_secret # ""
               /\ ~validate_signature(request.body, signature, webhook_secret).value THEN
           /\ webhook_stats' = record_error(counted, "invalid_signature", vendor)
           /\ last_request' = Handled(request, HttpResponse(401, "Invalid signature"), FALSE)
           /\ UNCHANGED background_tasks
       ELSE IF ~ParsesAsJson(request.body) THEN
           /\ webhook_stats' = record_error(counted, "mapping_error", vendor)
           /\ last_request' = Handled(request, HttpResponse(400, "Invalid JSON payload"), TRUE)
           /\ UNCHANGED background_tasks
       ELSE
           /\ webhook_stats' = record_valid(counted, vendor)
           /\ background_tasks' = Append(background_tasks, Task(request.body, vendor))
           /\ last_request' = Handled(request, Accepted, TRUE)
    /\ UNCHANGED <<webhook_secret, sig_call,
                   now, configVars, busVars, histVars, threadVars, idVars, schedVars, extVars>>

RemoveAt(q, k) == SubSeq(q, 1, k - 1) \o SubSeq(q, k + 1, Len(q))

\* a background task runs process_webhook_payload after its response was sent
ProcessWebhookPayload(k) ==
    /\ k \in 1..Len(background_tasks)
    /\ LET task == background_tasks[k]
           vendor == task.vendor
           mapped == webhook_raw_item(task.payload)
       IN
       IF mapped.raised \/ mapped.none \/ ~validate_raw_item(mapped.item) THEN
           /\ webhook_stats' = record_error(webhook_stats, "mapping_error", vendor)
           /\ UNCHANGED <<busVars, histVars>>
       ELSE
           /\ XaddJsonEffect("news.raw", mapped.item, "webhook:" \o vendor)
           /\ webhook_stats' = IF last'.result
                               THEN [webhook_stats EXCEPT !.published_items = @ + 1]
                               ELSE [webhook_stats EXCEPT !.duplicate_items = @ + 1]
    /\ background_tasks' = RemoveAt(background_tasks, k)
    /\ UNCHANGED <<webhook_secret, last_request, sig_call,
                   now, configVars, threadVars, idVars, schedVars, extVars>>

NoStats ==
    [total_requests |-> 0, valid_requests |-> 0, invalid_signatures |-> 0,
     mapping_errors |-> 0, published_items |-> 0, duplicate_items |-> 0,
     rate_limited |-> 0, vendor_stats |-> <<>>]
NoRequest ==
    Handled(Request(<<>>, <<>>, <<>>, <<>>, "", ""), HttpResponse(0, ""), FALSE)

\* the webhook module as imported, with the given webhook_secret
HookInit(secrets) ==
    /\ webhook_secret \in secrets
    /\ background_tasks = <<>>
    /\ webhook_stats = NoStats
    /\ last_request = NoRequest
    /\ sig_call = NoSigCall

HookIdle == HookInit({""})

\* ------------------------------------------------------ UnifiedDataManager
\* an item of the merged view: a valid item with its published minute and source
HubItem(id, minute, source) ==
    [ValidItem(id) EXCEPT !.published = Published("dt", minute, 0, 0, "Z"), !.source = source]

\* x.get('published', ''), as it compares with < on str: the published strings
\* of the hub's items differ in their minute only, a missing one is '' and lowest
PublishedKey(item) ==
    IF "published" \in DOMAIN item THEN item["published"].minute + 1 ELSE 0

\* the elements of s at the positions in idx, in their order
Pick(s, idx) ==
    [p \in 1..Cardinality(idx) |->
        s[CHOOSE i \in idx : Cardinality({j \in idx : j < i}) = p - 1]]

\* list.sort(key=published, reverse=True): descending and stable
SortByPublished_Ascending(items) ==
    LET pos(i) ==
            Cardinality({j \in 1..Len(items) : PublishedKey(items[j]) < PublishedKey(items[i])})
          + Cardinality({j \in 1..(i - 1) : PublishedKey(items[j]) = PublishedKey(items[i])}) + 1
    IN [p \in 1..Len(items) |-> items[CHOOSE i \in 1..Len(items) : pos(i) = p]]

SortByPublished(items) ==
    LET pos(i) ==
            Cardinality({j \in 1..Len(items) : PublishedKey(items[j]) > PublishedKey(items[i])})
          + Cardinality({j \in 1..(i - 1) : PublishedKey(items[j]) = PublishedKey(items[i])}) + 1
    IN [p \in 1..Len(items) |-> items[CHOOSE i \in 1..Len(items) : pos(i) = p]]

\* the loops over event_items and rss_items with their shared seen_ids: an item
\* is kept when its id is truthy and no earlier item has it
DedupById(items) ==
    Pick(items, {i \in 1..Len(items) :
                    /\ Truthy(items[i], "id")
                    /\ \A j \in 1..(i - 1) : ~(Truthy(items[j], "id") /\ items[j].id = items[i].id)})

\* the legacy conversion of a snapshot item: category becomes topic
LegacyTopic(item) ==
    IF "category" \in DOMAIN item /\ "topic" \notin DOMAIN item
    THEN [f \in DOMAIN item \cup {"topic"} |-> IF f = "topic" THEN item["category"] ELSE item[f]]
    ELSE item

\* the snapshot file: a JSON object with its items, or JSON of another shape.
\* _load_rss_data answers a missing file as an object without items; the cache
\* it keeps is refreshed whenever the file is written and is left out.
SnapshotFile(kind, items) == [kind |-> kind, items |-> items]
NoSnapshot == SnapshotFile("object", <<>>)

\* rss_data.get("items", []) raises on a file that is not a JSON object
LoadRaises(file) == file.kind # "object"

\* get_latest_items(limit): what it returns, whether it raised, and the bus channels after it
get_latest_items(limit) ==
    IF LoadRaises(rss_file)
    THEN [raised |-> TRUE, items |-> <<>>, channels |-> channels]
    ELSE LET r == get_recent_messages("news.raw", limit * 2)
             rss_items == [i \in 1..Len(rss_file.items) |-> LegacyTopic(rss_file.items[i])]
             all_items == SortByPublished(DedupById(r.out \o rss_items))
         IN [raised |-> FALSE, items |-> Take(all_items, limit), channels |-> r.channels]

NoLatest == [called |-> FALSE, limit |-> 0, raised |-> FALSE, items |-> <<>>]

\* a caller of the data manager asks for the latest items
GetLatestItems(limit) ==
    LET r == get_latest_items(limit) IN
    /\ channels' = r.channels
    /\ latest' = [called |-> TRUE, limit |-> limit, raised |-> r.raised, items |-> r.items]
    /\ UNCHANGED <<now, configVars, recent_ids, recent_timestamps, rate_limiters, limiters,
                   subscribers, histVars, threadVars, idVars, schedVars, hookVars,
                   rss_file, sse, wsVars, nwVars, mapVars>>

\* the feed worker, or anything else, writes the snapshot file
WriteSnapshot(file) ==
    /\ rss_file # file
    /\ rss_file' = file
    /\ UNCHANGED <<now, configVars, busVars, histVars, threadVars, idVars, schedVars, hookVars,
                   latest, sse, wsVars, nwVars, mapVars>>

\* ------------------------------------------------------------ stream_items
\* one server-sent event: its type, the id of its item, the count it reports
Event(type, id, count) == [type |-> type, id |-> id, count |-> count]

\* str.lower() on the values of the source parameter
Lower(s) == IF s = "WS:A" THEN "ws:a" ELSE s
\* the source parameter of the request; "" is no filter
SourceFilters == {"", "WS:A"}

\* the source filter of event_stream over the merged view
FilterBySource(items, source) ==
    IF source = "" THEN items
    ELSE LET src(item) == IF "source" \in DOMAIN item THEN item["source"] ELSE ""
         IN SelectSeq(items, LAMBDA item : Lower(src(item)) = Lower(source))

\* {item.get("id") for item in current_items if item.get("id")}
IdsOf(items) == {items[k].id : k \in {j \in 1..Len(items) : Truthy(items[j], "id")}}

NoStream ==
    [pc |-> "closed", source |-> "", last_seen_items |-> {}, heartbeat_counter |-> 0,
     events |-> <<>>, disconnected |-> FALSE, polls |-> 0, accepted_before |-> {},
     initial_ids |-> {}]

StreamEffect(s, chs) ==
    /\ sse' = s
    /\ channels' = chs
    /\ UNCHANGED <<now, configVars, recent_ids, recent_timestamps, rate_limiters, limiters,
                   subscribers, histVars, threadVars, idVars, schedVars, hookVars,
                   rss_file, latest, wsVars, nwVars, mapVars>>

\* GET /stream: the generator starts and yields the connected event
StreamConnect(source) ==
    /\ sse.pc = "closed"
    /\ StreamEffect([sse EXCEPT !.pc = "connected", !.source = source,
                                !.events = <<Event("connected", "", 0)>>], channels)

\* the initial view: last_seen_items and the initial_data event, or the error
\* event of a failed initialization, after which the generator returns
StreamInit ==
    /\ sse.pc = "connected"
    /\ LET r == get_latest_items(StreamWindow)
           current_items == FilterBySource(r.items, sse.source)
       IN IF r.raised
          THEN StreamEffect([sse EXCEPT !.pc = "ended",
                                        !.events = Append(@, Event("error", "", 0))],
                            r.channels)
          ELSE StreamEffect([sse EXCEPT !.pc = "polling",
                                        !.last_seen_items = IdsOf(current_items),
                                        !.accepted_before = KeysOf(accept_log),
                                        !.initial_ids = IdsOf(current_items),
                                        !.events = Append(@, Event("initial_data", "",
                                                                   Len(current_items)))],
                            r.channels)

\* heartbeat_counter += 1 and, every third time, get_stats and the heartbeat
\* event; get_stats raises on a snapshot that is not an object, and the handler
\* of the loop yields the error event
Heartbeat(s) ==
    LET n == s.heartbeat_counter + 1
        t == [s EXCEPT !.pc = "polling", !.heartbeat_counter = n]
    IN IF n % 3 # 0 THEN t
       ELSE IF LoadRaises(rss_file)
            THEN [t EXCEPT !.events = Append(@, Event("error", "", 0))]
            ELSE [t EXCEPT !.events = Append(@, Event("heartbeat", "",
                                                      Cardinality(s.last_seen_items)))]

\* the events of one batch: a new_item per new item, newest first, then batch_complete
BatchEvents_NoSummary(new_items, current_ids) ==
    [k \in 1..Len(new_items) |-> Event("new_item", new_items[k].id, 0)]

BatchEvents(new_items, current_ids) ==
    [k \in 1..Len(new_items) |-> Event("new_item", new_items[k].id, 0)]
        \o <<Event("batch_complete", "", Len(new_items))>>

\* one pass of the streaming loop up to its first await: the disconnect check,
\* the view and its new ids; without new ids the pass runs on through the
\* heartbeat to its sleep, with new ids it yields them and goes on later
StreamPoll ==
    /\ sse.pc = "polling"
    /\ sse.polls < MaxPolls
    /\ LET s == [sse EXCEPT !.polls = @ + 1]
           r == get_latest_items(StreamWindow)
           current_items == FilterBySource(r.items, sse.source)
           current_ids == IdsOf(current_items)
           new_ids == current_ids \ sse.last_seen_items
           new_items == SortByPublished(SelectSeq(current_items,
                                                  LAMBDA item : item.id \in new_ids))
       IN IF sse.disconnected
          THEN StreamEffect([s EXCEPT !.pc = "ended",
                                      !.events = Append(@, Event("disconnected", "", 0))],
                            channels)
          ELSE IF r.raised
          THEN StreamEffect([s EXCEPT !.events = Append(@, Event("error", "", 0))], r.channels)
          ELSE IF new_ids = {}
          THEN StreamEffect(Heartbeat(s), r.channels)
          ELSE StreamEffect([s EXCEPT !.pc = "heartbeat",
                                      !.last_seen_items = current_ids,
                                      !.events = @ \o BatchEvents(new_items, current_ids)],
                            r.channels)

\* the rest of a pass that yielded a batch
StreamHeartbeat ==
    /\ sse.pc = "heartbeat"
    /\ StreamEffect(Heartbeat(sse),
                    IF (sse.heartbeat_counter + 1) % 3 = 0 /\ ~LoadRaises(rss_file)
                    THEN get_recent_messages("news.raw", 1000).channels ELSE channels)

\* the client closes the connection
ClientDisconnects ==
    /\ sse.pc \in {"connected", "polling", "heartbeat"}
    /\ ~sse.disconnected
    /\ StreamEffect([sse EXCEPT !.disconnected = TRUE], channels)

HubIdle == rss_file = NoSnapshot /\ latest = NoLatest /\ sse = NoStream

\* -------------------------------------------------------- WebSocketAdapter
\* source_config['reconnect_backoff'], in seconds
reconnect_backoff == <<1, 2>>
\* sleeps are kept in 1/TicksPerSecond seconds, so that 0.1 s and 25 % are exact
TicksPerSecond == 20
\* random.random() * 2 - 1, at its ends and its middle
JitterDraws == {-1, 0, 1}

\* the messages a connection delivers: text frames that are not JSON, carry a
\* heartbeat marker, map to nothing or are one of three stories, and binary frames
TextFrames == {"not-json", "heartbeat", "unmapped", "story1", "story2", "story3"}
IsJson(data) == data # "not-json"

\* texts are sequences of characters
Text_heartbeat == <<"h", "e", "a", "r", "t", "b", "e", "a", "t">>
Text_ping == <<"p", "i", "n", "g">>
Text_type == <<"t", "y", "p", "e">>
Text_message_type == <<"m", "e", "s", "s", "a", "g", "e", "_", "t", "y", "p", "e">>
Text_event == <<"e", "v", "e", "n", "t">>
Text_title == <<"t", "i", "t", "l", "e">>
Text_url == <<"u", "r", "l">>

\* a JSON object: its keys and values in order
Pair(key, value) == [key |-> key, value |-> value]

\* json.loads(data) of the text frames that are JSON
JsonLoads(data) ==
    CASE data = "heartbeat" -> <<Pair(Text_type, Text_heartbeat)>>
      [] data = "unmapped" -> <<>>
      [] data = "story1" -> <<Pair(Text_title, <<"R", "a", "t", "e", "s">>),
                              Pair(Text_url, <<"x", "1">>)>>
      [] data = "story2" -> <<Pair(Text_title, <<"B", "o", "n", "d", "s">>),
                              Pair(Text_url, <<"x", "2">>)>>
      [] data = "story3" -> <<Pair(Text_title, <<"S", "h", "i", "p", "p", "i", "n", "g">>),
                              Pair(Text_url, <<"x", "3">>)>>

\* payload.get(key) == value
GetEquals(payload, key, value) ==
    \E i \in 1..Len(payload) : payload[i].key = key /\ payload[i].value = value

RECURSIVE StrOfPairs(_)
\* the pairs of str(payload): 'key': 'value', 'key': 'value'
StrOfPairs(payload) ==
    IF payload = <<>> THEN <<>>
    ELSE <<"'">> \o Head(payload).key \o <<"'", ":", " ", "'">> \o Head(payload).value
            \o <<"'">> \o (IF Tail(payload) = <<>> THEN <<>> ELSE <<",", " ">>)
            \o StrOfPairs(Tail(payload))

\* str(payload)
Str(payload) == <<"{">> \o StrOfPairs(payload) \o <<"}">>

\* str.lower() over the characters used
LowerText(text) ==
    [i \in 1..Len(text) |->
        CASE text[i] = "R" -> "r" [] text[i] = "B" -> "b" [] text[i] = "S" -> "s"
          [] OTHER -> text[i]]

\* sub in text
Contains(sub, text) ==
    \E i \in 0..(Len(text) - Len(sub)) : SubSeq(text, i + 1, i + Len(sub)) = sub

\* WebSocketAdapter._is_heartbeat_message
is_heartbeat_message(payload) ==
    \/ GetEquals(payload, Text_type, Text_heartbeat)
    \/ GetEquals(payload, Text_message_type, Text_ping)
    \/ GetEquals(payload, Text_event, Text_ping)
    \/ Contains(Text_heartbeat, LowerText(Str(payload)))
    \/ Contains(Text_ping, LowerText(Str(payload)))

\* self.mapper_func(payload, self.config): the item dict of the RawItem, or None
mapper_func(payload) ==
    CASE payload = "story1" -> [none |-> FALSE, item |-> ValidItem(IdOf(1))]
      [] payload = "story2" -> [none |-> FALSE, item |-> ValidItem(IdOf(2))]
      [] payload = "story3" -> [none |-> FALSE, item |-> ValidItem(IdOf(NIds + 1))]
      [] OTHER -> [none |-> TRUE, item |-> <<>>]

\* WebSocketAdapter.__init__, before connect_and_run; pc is the await the task
\* of connect_and_run is suspended at, sockets the websockets opened so far and
\* whether each is open, waited the time slept since the last connection
\* attempt ended, slept_index the backoff entry of the last sleep, news_frames
\* the text frames handled that were JSON and no heartbeat, last_frame the
\* last text frame handled, sessions the aiohttp client sessions
\* _connect_with_backoff opened so far and whether each is open
NewAdapter(max_queue_size) ==
    [pc |-> "new", running |-> FALSE, websocket |-> 0, reconnect_attempts |-> 0,
     message_count |-> 0, error_count |-> 0, message_queue |-> <<>>,
     max_queue_size |-> max_queue_size, sockets |-> <<>>, stopped |-> FALSE,
     waited |-> 0, slept_index |-> 0, connects |-> 0, news_frames |-> 0,
     last_frame |-> "", sessions |-> <<>>]

\* the backoff index of an adapter that never moves past the first entry
BackoffIndex_First(attempts) == 1

\* min(self.reconnect_attempts - 1, len(self.reconnect_backoff) - 1), from 1
BackoffIndex(attempts) == Min(attempts - 1, Len(reconnect_backoff) - 1) + 1

\* the top of the loop of connect_and_run up to its next await: the loop ends
\* when running is false; _connect_with_backoff sleeps its jittered delay when
\* reconnect_attempts > 0 and otherwise starts ws_connect at once
EnterConnect(a, u) ==
    IF ~a.running THEN [a EXCEPT !.pc = "done"]
    ELSE IF a.reconnect_attempts > 0
    THEN LET base_delay == reconnect_backoff[BackoffIndex(a.reconnect_attempts)]
             delay == Max(2, base_delay * TicksPerSecond + (base_delay * TicksPerSecond * u) \div 4)
         IN [a EXCEPT !.pc = "connect_sleep", !.waited = @ + delay,
                      !.slept_index = BackoffIndex(a.reconnect_attempts)]
    ELSE [a EXCEPT !.pc = "connecting", !.connects = @ + 1, !.waited = 0,
                   !.sessions = Append(@, TRUE)]

\* connect_and_run after _connect_with_backoff or _message_loop returned with
\* no websocket: _backoff_delay sleeps when running and reconnect_attempts > 0
AfterAttempt(a, u) ==
    IF a.running /\ a.reconnect_attempts > 0
    THEN [a EXCEPT !.pc = "backoff_delay",
                   !.waited = @ + reconnect_backoff[BackoffIndex(a.reconnect_attempts)]
                                      * TicksPerSecond,
                   !.slept_index = BackoffIndex(a.reconnect_attempts)]
    ELSE EnterConnect(a, u)

AdapterStep(a) ==
    /\ ws' = a
    /\ UNCHANGED <<now, configVars, busVars, histVars, threadVars, idVars, schedVars, hookVars,
                   hubVars, nwVars, mapVars>>

\* connect_and_run is started
ConnectAndRun ==
    /\ ws.pc = "new"
    /\ \E u \in JitterDraws : AdapterStep(EnterConnect([ws EXCEPT !.running = TRUE], u))

\* the sleep of _connect_with_backoff is over: ws_connect starts unless the
\* adapter was stopped meanwhile
ConnectSleepDone ==
    /\ ws.pc = "connect_sleep"
    /\ AdapterStep(IF ws.running
                   THEN [ws EXCEPT !.pc = "connecting", !.connects = @ + 1, !.waited = 0,
                                   !.sessions = Append(@, TRUE)]
                   ELSE [ws EXCEPT !.pc = "done"])

\* ws_connect returns a websocket: reconnect_attempts is reset and
\* _message_loop waits for the first message; the session stays open
ConnectSucceeds ==
    /\ ws.pc = "connecting"
    /\ AdapterStep([ws EXCEPT !.pc = "reading", !.reconnect_attempts = 0,
                              !.sockets = Append(@, TRUE),
                              !.websocket = Len(ws.sockets) + 1])

\* ws_connect raises: the session of the attempt is closed
ConnectFails ==
    /\ ws.pc = "connecting"
    /\ ws.connects < MaxConnects
    /\ \E u \in JitterDraws :
          AdapterStep(AfterAttempt([ws EXCEPT !.reconnect_attempts = @ + 1, !.websocket = 0,
                                              !.error_count = @ + 1,
                                              !.sessions[Len(ws.sessions)] = FALSE], u))

\* the sleep of _backoff_delay is over
BackoffDelayDone ==
    /\ ws.pc = "backoff_delay"
    /\ \E u \in JitterDraws : AdapterStep(EnterConnect(ws, u))

\* message_queue after the backpressure check and the append of item_dict;
\* popleft of an empty deque raises
QueuePush_Unbounded(q, item, max_queue_size) == [raised |-> FALSE, queue |-> Append(q, item)]

QueuePush(q, item, max_queue_size) ==
    IF Len(q) >= max_queue_size /\ q = <<>> THEN [raised |-> TRUE, queue |-> q]
    ELSE [raised |-> FALSE,
          queue |-> Append(IF Len(q) >= max_queue_size THEN Tail(q) ELSE q, item)]

\* the finally of _message_loop and the way back into the loop of connect_and_run
LeaveMessageLoop(a, u) ==
    AfterAttempt([a EXCEPT !.sockets = [k \in DOMAIN a.sockets |->
                                           IF k = a.websocket THEN FALSE ELSE a.sockets[k]],
                           !.websocket = 0], u)

\* the connection delivers a message to _message_loop: the loop breaks when the
\* adapter is not running; a binary message is ignored; a text message goes to
\* _handle_text_message, which counts it, decodes it, filters heartbeats, maps
\* it, queues the item and publishes it
ReceiveMessage(data) ==
    /\ ws.pc = "reading"
    /\ ws.sockets[ws.websocket]
    /\ ws.message_count < MaxFrames
    /\ IF ~ws.running
       THEN \E u \in JitterDraws : AdapterStep(LeaveMessageLoop(ws, u))
       ELSE IF data = "binary"
       THEN AdapterStep(ws)
       ELSE LET heartbeat == IsJson(data) /\ is_heartbeat_message(JsonLoads(data))
                counted == [ws EXCEPT !.message_count = @ + 1,
                                      !.news_frames = @ + (IF IsJson(data) /\ ~heartbeat
                                                            THEN 1 ELSE 0),
                                      !.last_frame = data]
                mapped == mapper_func(data)
                pushed == QueuePush(ws.message_queue, mapped.item, ws.max_queue_size)
            IN IF ~IsJson(data) \/ heartbeat \/ mapped.none \/ pushed.raised
               THEN AdapterStep(counted)
               ELSE /\ ws' = [counted EXCEPT !.message_queue = pushed.queue]
                    /\ XaddJsonEffect("news.raw", mapped.item, "websocket:a")
                    /\ UNCHANGED <<now, configVars, threadVars, idVars, schedVars, hookVars,
                                   hubVars, nwVars, mapVars>>

\* the server closes the connection, or the connection fails: _message_loop ends
ConnectionLost ==
    /\ ws.pc = "reading"
    /\ ws.sockets[ws.websocket]
    /\ ws.connects < MaxConnects
    /\ \E u \in JitterDraws : AdapterStep(LeaveMessageLoop(ws, u))

\* _message_loop finds its websocket closed by stop()
MessageLoopEnds ==
    /\ ws.pc = "reading"
    /\ ~ws.sockets[ws.websocket]
    /\ \E u \in JitterDraws : AdapterStep(LeaveMessageLoop(ws, u))

\* stop(): running = False, and the websocket the adapter holds is closed
Stop ==
    /\ ws.pc # "new"
    /\ ~ws.stopped
    /\ AdapterStep([ws EXCEPT !.running = FALSE, !.stopped = TRUE,
                              !.sockets = [k \in DOMAIN ws.sockets |->
                                              IF k = ws.websocket THEN FALSE ELSE ws.sockets[k]]])

WsIdle == ws = NewAdapter(1)

\* ----------------------------------------------------------- NewswireClient
\* asyncio.sleep(30) of start() after connect() returned False
retry_delay == 30
\* asyncio.sleep(60) of start() after connect() or read_loop() raised
error_delay == 60
\* asyncio.sleep(5) of read_loop after a read error
read_error_delay == 5

\* the lines the socket delivers: a read timeout, and lines that are not JSON,
\* are a heartbeat, map to nothing or map to one of two stories
NewswireLines == {"timeout", "not-json", "heartbeat", "unmapped", "story1", "story2"}
\* map_newswire_to_raw(payload, self.config): the item dict of the RawItem, or None
newswire_raw_item(payload) ==
    CASE payload = "story1" -> [none |-> FALSE, item |-> ValidItem(IdOf(1))]
      [] payload = "story2" -> [none |-> FALSE, item |-> ValidItem(IdOf(2))]
      [] OTHER -> [none |-> TRUE, item |-> <<>>]

\* NewswireClient.__init__, before start(); pc is the await the task of start()
\* is suspended at, waited the time slept since the last connection attempt
\* ended, failures the connect() calls that failed in a row
NewClient ==
    [pc |-> "new", running |-> FALSE, connected |-> FALSE, message_count |-> 0,
     error_count |-> 0, waited |-> 0, failures |-> 0, connects |-> 0, stopped |-> FALSE]

ClientStep(c) ==
    /\ nw' = c
    /\ UNCHANGED <<now, configVars, busVars, histVars, threadVars, idVars, schedVars, hookVars,
                   hubVars, wsVars, mapVars>>

\* the top of the loop of start(): connect() is called while running
NextConnect(c) ==
    IF c.running THEN [c EXCEPT !.pc = "connecting", !.connects = @ + 1, !.waited = 0]
    ELSE [c EXCEPT !.pc = "done"]

\* start() is called
NewswireStart ==
    /\ nw.pc = "new"
    /\ ClientStep(NextConnect([nw EXCEPT !.running = TRUE]))

\* connect() returns True: read_loop waits for a line
NewswireConnects ==
    /\ nw.pc = "connecting"
    /\ ClientStep([nw EXCEPT !.pc = "reading", !.connected = TRUE, !.failures = 0])

\* connect() returned False: start() sleeps its fixed retry delay
RetrySleep(c) ==
    [c EXCEPT !.pc = "sleeping", !.failures = @ + 1, !.connected = FALSE,
              !.waited = @ + retry_delay]

\* connect() returns False
NewswireConnectFails ==
    /\ nw.pc = "connecting"
    /\ nw.connects < MaxConnects
    /\ ClientStep(RetrySleep(nw))

\* connect() raises
NewswireConnectRaises ==
    /\ nw.pc = "connecting"
    /\ nw.connects < MaxConnects
    /\ ClientStep([nw EXCEPT !.pc = "sleeping", !.failures = @ + 1, !.connected = FALSE,
                             !.error_count = @ + 1, !.waited = @ + error_delay])

\* a sleep of start() or of read_loop is over; the finally of start() closes
\* the connection and the loop goes on
NewswireSleepDone ==
    /\ nw.pc = "sleeping"
    /\ ClientStep(NextConnect(nw))

\* readline returns a line, or times out and a ping is sent: a line that is
\* JSON and no heartbeat goes to process_message, which maps and publishes it
\* and counts it when the bus accepted it
NewswireReadLine(line) ==
    /\ nw.pc = "reading"
    /\ nw.running /\ nw.connected
    /\ LET mapped == newswire_raw_item(line) IN
       IF mapped.none
       THEN ClientStep(nw)
       ELSE /\ XaddJsonEffect("news.raw", mapped.item, "newswire:a")
            /\ nw' = IF last'.result THEN [nw EXCEPT !.message_count = @ + 1] ELSE nw
            /\ UNCHANGED <<now, configVars, threadVars, idVars, schedVars, hookVars,
                           hubVars, wsVars, mapVars>>

\* readline returns no bytes: the server closed the connection; read_loop
\* breaks, start() closes and goes on with its loop
NewswireServerCloses ==
    /\ nw.pc = "reading"
    /\ nw.running /\ nw.connected
    /\ nw.connects < MaxConnects
    /\ ClientStep(NextConnect([nw EXCEPT !.connected = FALSE]))

\* readline raises: read_loop counts the error, sleeps and breaks
NewswireReadError ==
    /\ nw.pc = "reading"
    /\ nw.running /\ nw.connected
    /\ nw.connects < MaxConnects
    /\ ClientStep([nw EXCEPT !.pc = "sleeping", !.connected = FALSE,
                             !.error_count = @ + 1, !.waited = @ + read_error_delay])

\* read_loop finds the client stopped or closed
NewswireReadLoopEnds ==
    /\ nw.pc = "reading"
    /\ ~(nw.running /\ nw.connected)
    /\ ClientStep(NextConnect([nw EXCEPT !.connected = FALSE]))

\* stop(): running = False and close()
NewswireStop ==
    /\ nw.pc # "new"
    /\ ~nw.stopped
    /\ ClientStep([nw EXCEPT !.running = FALSE, !.connected = FALSE, !.stopped = TRUE])

NwIdle == nw = NewClient

\* ------------------------------------------------------------------ mappers
\* A payload as the mappers read it: a JSON object or another JSON value; an
\* object may lack its link (RawItem then raises ValueError) and names its
\* vendor under 'vendor'/'source' with a string, with null, or not at all.
Payload(kind, link, vendor) == [kind |-> kind, link |-> link, vendor |-> vendor]
MapperPayloads ==
    {Payload("dict", TRUE, v) : v \in {"absent", "null", "acme"}}
        \cup {Payload("dict", FALSE, "acme"), Payload("list", FALSE, "absent")}

\* The context of a mapping, cfg or headers: None, a dict, or another value; a
\* dict may be empty and names the vendor ('name', 'vendor', 'X-Vendor') with a
\* string, with null, or not at all.
Context(kind, empty, vendor) == [kind |-> kind, empty |-> empty, vendor |-> vendor]
MapperContexts ==
    {Context("none", TRUE, "absent"), Context("dict", TRUE, "absent"),
     Context("dict", FALSE, "absent"), Context("dict", FALSE, "null"),
     Context("dict", FALSE, "acme"), Context("other", FALSE, "absent")}

\* what a call did: raised, returned None, or returned a RawItem
Mapped(raised, none) == [raised |-> raised, none |-> none]

\* x.get(...) raises AttributeError on a value that is not a dict
GetRaises(x) == x.kind # "dict"
\* bool(x) of a context
IsTruthy(x) == x.kind = "other" \/ (x.kind = "dict" /\ ~x.empty)

\* the body of a vendor mapper over payload and cfg: payload.get, cfg[key] and
\* RawItem.__post_init__ may raise
MapperBodyRaises(payload, cfg) ==
    GetRaises(payload) \/ cfg.vendor = "absent" \/ ~payload.link

\* map_ws_payload_to_raw(payload, cfg) and map_newswire_to_raw(payload, cfg):
\* the vendor is cfg.get(key, 'unknown').lower(); the except block logs
\* cfg.get(key, 'unknown') and returns None
map_ws_payload_to_raw(payload, cfg) ==
    LET vendor_raises == GetRaises(cfg) \/ cfg.vendor = "null"
        try_raises == vendor_raises \/ MapperBodyRaises(payload, cfg)
        except_raises == GetRaises(cfg)
    IN IF ~try_raises THEN Mapped(FALSE, FALSE)
       ELSE IF except_raises THEN Mapped(TRUE, FALSE) ELSE Mapped(FALSE, TRUE)

map_newswire_to_raw(payload, cfg) == map_ws_payload_to_raw(payload, cfg)

\* map_webhook_payload_to_raw(payload, headers): the vendor is the first truthy
\* of the headers' and the payload's vendor values, lowered; the except block
\* logs the local name vendor, which is unbound when that expression raised
map_webhook_payload_to_raw(payload, headers) ==
    LET from_headers == ~GetRaises(headers) /\ headers.vendor = "acme"
        vendor_raises ==
            \/ GetRaises(headers)
            \/ ~from_headers /\ (GetRaises(payload) \/ payload.vendor = "null")
        try_raises == vendor_raises \/ GetRaises(payload) \/ ~payload.link
        except_raises == vendor_raises
    IN IF ~try_raises THEN Mapped(FALSE, FALSE)
       ELSE IF except_raises THEN Mapped(TRUE, FALSE) ELSE Mapped(FALSE, TRUE)

AdapterTypes == {"websocket", "webhook", "newswire", "invalid_type"}

\* safe_map_payload(payload, adapter_type, config, headers): every exception
\* of its try block, the ValueError it raises itself included, ends in None
safe_map_payload(payload, adapter_type, config, headers) ==
    LET inner == CASE adapter_type = "websocket" -> map_ws_payload_to_raw(payload, config)
                   [] adapter_type = "webhook" -> map_webhook_payload_to_raw(payload, headers)
                   [] adapter_type = "newswire" -> map_newswire_to_raw(payload, config)
                   [] OTHER -> Mapped(TRUE, FALSE)
        required == IF adapter_type = "webhook" THEN headers ELSE config
    IN IF adapter_type \notin {"websocket", "webhook", "newswire"} \/ ~IsTruthy(required)
          \/ inner.raised
       THEN Mapped(FALSE, TRUE) ELSE inner

\* a call of an entry point: its arguments and, once it is done, what it did
NoMapping ==
    [entry |-> "", adapter_type |-> "", payload |-> Payload("dict", TRUE, "acme"),
     context |-> Context("none", TRUE, "absent"), done |-> FALSE, raised |-> FALSE,
     none |-> FALSE]

MapperReturns(r) ==
    /\ ~mapping.done
    /\ mapping' = [mapping EXCEPT !.done = TRUE, !.raised = r.raised, !.none = r.none]
    /\ UNCHANGED <<now, configVars, busVars, histVars, threadVars, idVars, schedVars, hookVars,
                   hubVars, wsVars, nwVars>>

MapWsPayloadToRaw ==
    /\ mapping.entry = "map_ws_payload_to_raw"
    /\ MapperReturns(map_ws_payload_to_raw(mapping.payload, mapping.context))

MapWebhookPayloadToRaw ==
    /\ mapping.entry = "map_webhook_payload_to_raw"
    /\ MapperReturns(map_webhook_payload_to_raw(mapping.payload, mapping.context))

MapNewswireToRaw ==
    /\ mapping.entry = "map_newswire_to_raw"
    /\ MapperReturns(map_newswire_to_raw(mapping.payload, mapping.context))

SafeMapPayload ==
    /\ mapping.entry = "safe_map_payload"
    /\ MapperReturns(safe_map_payload(mapping.payload, mapping.adapter_type,
                                      mapping.context, mapping.context))

MapperIdle == mapping = NoMapping

\* ---------------------------------------------------------- specification
\* no client of the hub, no adapter running
ExtIdle == HubIdle /\ WsIdle /\ NwIdle /\ MapperIdle

Rate(num, den) == [num |-> num, den |-> den]

\* EventBus.__init__ with the given default_rate_limit and max_recent_items
BusInit(rates, caps) ==
    /\ now = 0
    /\ default_rate_limit \in rates
    /\ max_recent_items \in caps
    /\ channels = <<>>
    /\ recent_ids = {}
    /\ recent_timestamps = <<>>
    /\ rate_limiters = <<>>
    /\ limiters = <<>>
    /\ subscribers = <<>>
    /\ calls = 0
    /\ last = Call("init", "", "", "", FALSE, TRUE, "", <<>>, 0, <<>>)
    /\ accept_log = <<>>
    /\ burst = <<>>
    /\ pc = [t \in Threads |-> "idle"]
    /\ targs = [t \in Threads |-> NoArgs]
    /\ tref = [t \in Threads |-> 0]
    /\ tres = [t \in Threads |-> NoResult]

\* a bus alone: no item under construction, no scheduler running
InitBus(rates, caps) == BusInit(rates, caps) /\ IdIdle /\ SchedIdle /\ HookIdle /\ ExtIdle

PublishValid == \E i \in Ids, s \in Sources : XaddJson("news.raw", ValidItem(i), s)
PublishInvalid == \E d \in InvalidItems \cup NoIdItems, s \in Sources : XaddJson("news.raw", d, s)
PublishAlert ==
    \E d \in {ValidItem(IdOf(1)), Without(ValidItem(IdOf(1)), "id")} :
        XaddJson("alerts", d, "ws:a")

\* Spec: publishers of valid items over time, one subscriber list on news.raw
Init == InitBus({Rate(1, 2)}, {1, 2})
Next ==
    \/ PublishValid
    \/ Subscribe("news.raw", "cb1")
    \/ Tick
Spec == Init /\ [][Next]_vars

\* SpecRate: the same operations on buses of several rate limits
InitRate == InitBus({Rate(1, 10), Rate(1, 3), Rate(1, 2)}, {NIds})
SpecRate == InitRate /\ [][Next]_vars

\* SpecValidate: malformed and well-formed items offered to news.raw
InitValidate == InitBus({Rate(1, 2)}, {NIds})
NextValidate ==
    \/ PublishInvalid
    \/ PublishValid
SpecValidate == InitValidate /\ [][NextValidate]_vars

\* SpecNotify: subscribing callbacks, some of which raise, and publishing
NextNotify ==
    \/ \E c \in Channels, cb \in Callbacks : Subscribe(c, cb)
    \/ \E i \in Ids : XaddJson("news.raw", ValidItem(i), "ws:a")
SpecNotify == InitValidate /\ [][NextNotify]_vars

\* SpecTokens: well-formed items, malformed items and items without id
\* offered on both channels over time
NextTokens ==
    \/ PublishValid
    \/ PublishInvalid
    \/ PublishAlert
    \/ Tick
SpecTokens == InitValidate /\ [][NextTokens]_vars

\* SpecRead: publishing on two channels and reading them back
NextRead ==
    \/ \E i \in Ids : XaddJson("news.raw", ValidItem(i), "ws:a")
    \/ PublishAlert
    \/ \E c \in Channels, n \in 0..2 : GetRecentMessages(c, n)
SpecRead == InitValidate /\ [][NextRead]_vars

\* SpecConc: concurrent publishers, one xadd_json call each, no time passing
NextConc ==
    \E t \in Threads :
        \/ \E i \in Ids, s \in Sources : TCall(t, ValidItem(i), s)
        \/ TLimiterCheck(t)
        \/ TLimiterCreate(t)
        \/ TLimiterGet(t)
        \/ TAllow(t)
        \/ TSeen(t)
        \/ TInsert(t)
SpecConc == InitValidate /\ [][NextConc]_vars

\* SpecLimiterRace: the same publishers on a bus whose buckets hold one token
InitLimiterRace == InitBus({Rate(1, 3)}, {NIds})
SpecLimiterRace == InitLimiterRace /\ [][NextConc]_vars

\* SpecId: two items drawn from the item domain, then given their ids
InitId ==
    /\ BusInit({Rate(1, 2)}, {NIds})
    /\ SchedIdle
    /\ HookIdle
    /\ ExtIdle
    /\ item_a \in RawItems
    /\ item_b \in RawItems
    /\ made = <<>>
SpecId == InitId /\ [][MakeIds]_vars

\* SpecExtract: a feed of two entries of one feed source, parsed by the worker
InitExtract ==
    /\ BusInit({Rate(1, 2)}, {NIds})
    /\ SchedIdle
    /\ HookIdle
    /\ ExtIdle
    /\ item_a \in RawItems
    /\ item_b \in {i \in RawItems : i.source = item_a.source}
    /\ made = <<>>
SpecExtract == InitExtract /\ [][ExtractItems]_vars

\* SpecSched: the polling loop over two hosts
InitSched == BusInit({Rate(1, 2)}, {NIds}) /\ IdIdle /\ HookIdle /\ ExtIdle /\ SchedInit(Hosts)
NextSched ==
    \/ \E h \in DOMAIN host_states : PollHost(h)
    \/ \E h \in DOMAIN host_states, i \in 1..2, r \in Responses :
          i <= Len(feeds_by_host[h]) /\ FetchFeed(h, i, r)
    \/ \E h \in DOMAIN host_states, j \in jitter_range_seconds : UpdateHostState(h, j)
    \/ SchedSleep
SpecSched == InitSched /\ [][NextSched]_vars

\* SpecNotModified: a worker of one host, whose feeds answer with validators,
\* 304 and Retry-After
ValidatorResponses ==
    {Response(200, <<>>, 0, "v1", "m1"), Response(200, <<"e1">>, 0, "v1", "m1"),
     Response(200, <<>>, 0, "", ""), Response(304, <<>>, 0, "", ""),
     Response(429, <<>>, 600, "", "")}
InitOneHost ==
    /\ BusInit({Rate(1, 2)}, {NIds}) /\ IdIdle /\ HookIdle /\ ExtIdle
    /\ \E h \in Hosts : SchedInit({h})
NextNotModified ==
    \/ \E h \in DOMAIN host_states : PollHost(h)
    \/ \E h \in DOMAIN host_states, i \in 1..2, r \in ValidatorResponses :
          i <= Len(feeds_by_host[h]) /\ FetchFeed(h, i, r)
    \/ \E h \in DOMAIN host_states, j \in jitter_range_seconds : UpdateHostState(h, j)
    \/ SchedSleep
SpecNotModified == InitOneHost /\ [][NextNotModified]_vars

\* SpecHostError: the worker of both hosts, with feeds that answer, fail or
\* time out and with _update_host_state raising on entry (before it changed
\* the state) or after it rescheduled the host; a raise between the two leaves
\* fields that _handle_host_error overwrites or that the late case covers
ErrorResponses ==
    {Response(200, <<"e1">>, 0, "", ""), Response(304, <<>>, 0, "", ""),
     Response(429, <<>>, 600, "", ""), Response(500, <<>>, 0, "", ""),
     Response(0, <<>>, 0, "", "")}
InitHostError == BusInit({Rate(1, 2)}, {NIds}) /\ IdIdle /\ HookIdle /\ ExtIdle /\ SchedInit(Hosts)
NextHostError ==
    \/ \E h \in DOMAIN host_states : PollHost(h) /\ cycles < MaxErrorCycles
    \/ \E h \in DOMAIN host_states, i \in 1..2, r \in ErrorResponses :
          i <= Len(feeds_by_host[h]) /\ FetchFeed(h, i, r)
    \/ \E h \in DOMAIN host_states, j \in jitter_range_seconds : UpdateHostState(h, j)
    \/ \E h \in DOMAIN host_states, late \in BOOLEAN, j \in jitter_range_seconds :
          UpdateHostStateRaises(h, late, j)
    \/ SchedSleep
SpecHostError == InitHostError /\ [][NextHostError]_vars

\* SpecSiblings: a worker of one host whose feeds answer 200 with entries or
\* fail in one of the ways _fetch_feed tells apart
SiblingResponses ==
    {Response(200, <<"e1">>, 0, "", ""), Response(200, <<"e1", "e2">>, 0, "", ""),
     Response(200, <<>>, 0, "", ""), Response(429, <<>>, 0, "", ""),
     Response(404, <<>>, 0, "", ""), Response(500, <<>>, 0, "", ""),
     Response(0, <<>>, 0, "", "")}
NextSiblings ==
    \/ \E h \in DOMAIN host_states : PollHost(h)
    \/ \E h \in DOMAIN host_states, i \in 1..2, r \in SiblingResponses :
          i <= Len(feeds_by_host[h]) /\ FetchFeed(h, i, r)
    \/ \E h \in DOMAIN host_states, j \in jitter_range_seconds : UpdateHostState(h, j)
    \/ SchedSleep
SpecSiblings == InitOneHost /\ [][NextSiblings]_vars

\* SpecBounds: a worker of one host whose feeds answer 200 with or without new
\* entries, 304, 429 with a Retry-After of an hour, 404, or time out
BoundResponses ==
    {Response(200, <<"e1">>, 0, "", ""), Response(200, <<>>, 0, "", ""),
     Response(304, <<>>, 0, "", ""), Response(429, <<>>, 3600, "", ""),
     Response(404, <<>>, 0, "", ""), Response(0, <<>>, 0, "", "")}
NextBounds ==
    \/ \E h \in DOMAIN host_states : PollHost(h)
    \/ \E h \in DOMAIN host_states, i \in 1..2, r \in BoundResponses :
          i <= Len(feeds_by_host[h]) /\ FetchFeed(h, i, r)
    \/ \E h \in DOMAIN host_states, j \in jitter_range_seconds : UpdateHostState(h, j)
    \/ SchedSleep
SpecBounds == InitOneHost /\ [][NextBounds]_vars

\* SpecValidators: a worker of one host whose feeds answer 200 with their own
\* ETag and Last-Modified or without validators, or 304
FeedResponses(feed) ==
    {Response(200, <<>>, 0, "etag of " \o feed, "date of " \o feed),
     Response(200, <<>>, 0, "", ""), Response(304, <<>>, 0, "", "")}
NextValidators ==
    \/ \E h \in DOMAIN host_states : PollHost(h)
    \/ \E h \in DOMAIN host_states, i \in 1..2 :
          /\ i <= Len(feeds_by_host[h])
          /\ \E r \in FeedResponses(feeds_by_host[h][i]) : FetchFeed(h, i, r)
    \/ \E h \in DOMAIN host_states, j \in jitter_range_seconds : UpdateHostState(h, j)
    \/ SchedSleep
SpecValidators == InitOneHost /\ [][NextValidators]_vars

\* SpecSignature: validate_signature called on a body, a header value of up to
\* MaxSigLen parts and a secret
InitSignature ==
    /\ BusInit({Rate(1, 2)}, {NIds}) /\ IdIdle /\ SchedIdle /\ ExtIdle
    /\ webhook_secret = ""
    /\ background_tasks = <<>>
    /\ webhook_stats = NoStats
    /\ last_request = NoRequest
    /\ \E b \in BodyBytes, g \in Signatures, k \in Secrets :
          sig_call = [NoSigCall EXCEPT !.body = b, !.signature = g, !.secret = k]
SpecSignature == InitSignature /\ [][ValidateSignature]_vars

\* SpecWebhook: the receiver with and without a configured secret, its
\* background tasks publishing to the bus
InitWebhook ==
    /\ BusInit({Rate(1, 3)}, {NIds}) /\ IdIdle /\ SchedIdle /\ ExtIdle
    /\ HookInit({"", "s1"})
NextWebhook ==
    \/ \E r \in WebhookRequests : ReceiveWebhook(r)
    \/ \E k \in 1..MaxRequests : ProcessWebhookPayload(k)
SpecWebhook == InitWebhook /\ [][NextWebhook]_vars

\* SpecMerged: publishers, the clock and the writer of the snapshot file around
\* callers of get_latest_items
SnapshotItem(id, minute) == HubItem(id, minute, "rss:feed")
LegacyItem ==
    LET x == SnapshotItem("e2", 0)
    IN [f \in DOMAIN x \cup {"category"} |-> IF f = "category" THEN "tech" ELSE x[f]]
MergedFiles ==
    {NoSnapshot, SnapshotFile("array", <<>>),
     SnapshotFile("object", <<SnapshotItem(IdOf(2), 1)>>),
     SnapshotFile("object", <<SnapshotItem("e1", 0), SnapshotItem(IdOf(2), 1)>>),
     SnapshotFile("object", <<Without(SnapshotItem("e1", 1), "id"), LegacyItem>>)}
AdaptersIdle == IdIdle /\ SchedIdle /\ HookIdle /\ WsIdle /\ NwIdle /\ MapperIdle
\* the item a vendor delivers under the k-th id: its published minute and its
\* source alternate with k
VendorItem(k) ==
    HubItem(IdOf(k), (k - 1) % (MaxMinute + 1), IF k % 2 = 1 THEN "ws:a" ELSE "hook:b")
PublishHubItem == \E k \in 1..NIds : XaddJson("news.raw", VendorItem(k), VendorItem(k).source)
\* a vendor delivers an item the bus has not accepted before
PublishNewItem ==
    \E k \in 1..NIds :
        /\ IdOf(k) \notin KeysOf(accept_log)
        /\ XaddJson("news.raw", VendorItem(k), VendorItem(k).source)
InitMerged ==
    /\ BusInit({Rate(1, 2)}, {NIds}) /\ AdaptersIdle
    /\ rss_file \in MergedFiles
    /\ latest = NoLatest
    /\ sse = NoStream
NextMerged ==
    \/ PublishHubItem
    \/ Tick
    \/ \E f \in MergedFiles : WriteSnapshot(f)
    \/ \E limit \in 1..StreamWindow : GetLatestItems(limit)
SpecMerged == InitMerged /\ [][NextMerged]_vars

\* SpecStream: one stream connection beside publishers and the writer of the
\* snapshot file
StreamFiles ==
    {NoSnapshot, SnapshotFile("array", <<>>),
     SnapshotFile("object", <<SnapshotItem("e1", 1), SnapshotItem("e2", 1)>>)}
InitStream ==
    /\ BusInit({Rate(1, 2)}, {NIds}) /\ AdaptersIdle
    /\ rss_file \in StreamFiles
    /\ latest = NoLatest
    /\ sse = NoStream
NextStream ==
    \/ PublishNewItem
    \/ \E f \in StreamFiles : WriteSnapshot(f)
    \/ \E source \in SourceFilters : StreamConnect(source)
    \/ StreamInit
    \/ StreamPoll
    \/ StreamHeartbeat
    \/ ClientDisconnects
SpecStream == InitStream /\ [][NextStream]_vars


\* SpecWs: one WebSocket adapter, its server and the caller of stop()
WsMessages == TextFrames \cup {"binary"}
InitWs ==
    /\ BusInit({Rate(1, 2)}, {NIds}) /\ IdIdle /\ SchedIdle /\ HookIdle /\ HubIdle /\ NwIdle /\ MapperIdle
    /\ \E n \in 1..MaxQueueSize : ws = NewAdapter(n)
NextWs ==
    \/ ConnectAndRun
    \/ ConnectSleepDone
    \/ ConnectSucceeds
    \/ ConnectFails
    \/ BackoffDelayDone
    \/ \E data \in WsMessages : ReceiveMessage(data)
    \/ ConnectionLost
    \/ MessageLoopEnds
    \/ Stop
SpecWs == InitWs /\ [][NextWs]_vars

\* SpecWsLive: the same, where every sleep ends, every ws_connect returns or
\* raises, and a message loop whose websocket was closed ends; the server owes
\* no message
SpecWsLive ==
    /\ SpecWs
    /\ WF_vars(ConnectAndRun)
    /\ WF_vars(ConnectSleepDone)
    /\ WF_vars(ConnectSucceeds)
    /\ WF_vars(BackoffDelayDone)
    /\ WF_vars(MessageLoopEnds)

\* SpecNewswire: one newswire client, its server and the caller of stop()
InitNewswire ==
    /\ BusInit({Rate(1, 2)}, {NIds}) /\ IdIdle /\ SchedIdle /\ HookIdle /\ HubIdle /\ WsIdle /\ MapperIdle
    /\ nw = NewClient
NextNewswire ==
    \/ NewswireStart
    \/ NewswireConnects
    \/ NewswireConnectFails
    \/ NewswireConnectRaises
    \/ NewswireSleepDone
    \/ \E line \in NewswireLines : NewswireReadLine(line)
    \/ NewswireServerCloses
    \/ NewswireReadError
    \/ NewswireReadLoopEnds
    \/ NewswireStop
SpecNewswire == InitNewswire /\ [][NextNewswire]_vars

\* SpecMapper: one call of a mapper entry point on a payload and a context; the
\* three mappers are given a dict, safe_map_payload any of its optional values
InitMapper ==
    /\ BusInit({Rate(1, 2)}, {NIds}) /\ IdIdle /\ SchedIdle /\ HookIdle /\ HubIdle /\ WsIdle
    /\ NwIdle
    /\ \E e \in {"map_ws_payload_to_raw", "map_webhook_payload_to_raw", "map_newswire_to_raw",
                 "safe_map_payload"},
          t \in AdapterTypes, p \in MapperPayloads, c \in MapperContexts :
          /\ e # "safe_map_payload" => t = "websocket" /\ c.kind = "dict"
          /\ mapping = [NoMapping EXCEPT !.entry = e, !.adapter_type = t, !.payload = p,
                                         !.context = c]
NextMapper ==
    \/ MapWsPayloadToRaw
    \/ MapWebhookPayloadToRaw
    \/ MapNewswireToRaw
    \/ SafeMapPayload
SpecMapper == InitMapper /\ [][NextMapper]_vars

\* ================================================================= claims
HistoryOf(chs, c) == IF c \in DOMAIN chs THEN chs[c] ELSE <<>>
History(c) == HistoryOf(channels, c)
Occurrences(h, id) == Cardinality({k \in 1..Len(h) : h[k].id = id})

\* C1: of the concurrent xadd_json calls that carry the same id on news.raw
\* within the TTL window, at most one returns accepted (True), and the id
\* appears at most once in the channel history.
C1_AtMostOneAccept ==
    \A i \in Ids :
        /\ Cardinality({t \in Threads : tres[t].done /\ tres[t].result /\ targs[t].id = i}) <= 1
        /\ Occurrences(History("news.raw"), i) <= 1

\* ---- steps and history used by the claims about single calls
\* the step is a completed xadd_json call
PublishStep == calls' = calls + 1 /\ last'.op = "xadd_json"

\* the id was last accepted no more than TTL ago (by the run's history)
AcceptedWithinTtl(id) ==
    \E k \in 1..Len(accept_log) :
        accept_log[k].id = id /\ now - accept_log[k].ts <= RecentTtlSeconds

\* number of other ids accepted after the last acceptance of id
AcceptedSince(id) ==
    LET k == CHOOSE k \in 1..Len(accept_log) : accept_log[k].id = id
    IN Len(accept_log) - k

Count(seq, x) == Cardinality({k \in 1..Len(seq) : seq[k] = x})
SubscribersOf(c) == IF c \in DOMAIN subscribers THEN subscribers[c] ELSE <<>>

\* C2 (as stated): a publish of an id that was accepted within the current
\* TTL window returns False, leaves the channel history as it is and invokes
\* no subscriber callback.
C2_DuplicateRejected ==
    [][(PublishStep /\ AcceptedWithinTtl(last'.id))
        => (/\ last'.result = FALSE
            /\ Len(HistoryOf(channels', last'.channel)) = Len(History(last'.channel))
            /\ last'.invoked = <<>>)]_vars

\* C2 (amended): the same, for an id accepted within the TTL window after
\* whose acceptance fewer than max_recent_items other ids were accepted (so
\* that the cap has not evicted it).
C2_DuplicateRejectedUnlessEvicted ==
    [][(PublishStep /\ AcceptedWithinTtl(last'.id) /\ AcceptedSince(last'.id) < max_recent_items)
        => (/\ last'.result = FALSE
            /\ channels' = channels
            /\ last'.invoked = <<>>)]_vars

\* a duplicate was rejected while a callback was subscribed to its channel
C2_Witness ==
    /\ last.op = "xadd_json" /\ last.reason = "duplicate"
    /\ SubscribersOf(last.channel) # <<>>

\* C3: a publish on news.raw of an item that lacks title, link, published,
\* source or publisher, or whose published does not parse, returns False and
\* leaves the whole bus state unchanged (no token consumed, no limiter
\* created, history and dedup set as they were).
C3_InvalidLeavesBusUnchanged ==
    [][(PublishStep /\ last'.channel = "news.raw" /\ last'.lacks)
        => (last'.result = FALSE /\ UNCHANGED busVars)]_vars

\* an invalid item was offered by a source that has no rate limiter
C3_Witness ==
    /\ last.op = "xadd_json" /\ last.lacks /\ last.result = FALSE
    /\ last.source \notin DOMAIN rate_limiters
    /\ \E s \in DOMAIN rate_limiters : limiters[rate_limiters[s]].tokens > 0

\* tokens the bucket of `source` holds at `now`, in units of 1/den token
TokensAvailable(source) ==
    LET cap == ((5 * default_rate_limit.num) \div default_rate_limit.den) * default_rate_limit.den
    IN IF source \in DOMAIN rate_limiters
       THEN LET lim == limiters[rate_limiters[source]]
            IN Min(cap, lim.tokens + (now - lim.last_update) * default_rate_limit.num)
       ELSE cap

\* C4: a publish whose source label has less than one token returns False,
\* leaves the channel history, the dedup id set and the id->timestamp map
\* unchanged and invokes no callback; and the history only ever changes by an
\* accepted publish appending its own message (nothing is queued or retried).
C4_RateLimitedLeavesNoTrace ==
    [][/\ (PublishStep /\ TokensAvailable(last'.source) < default_rate_limit.den)
            => (/\ last'.result = FALSE
                /\ UNCHANGED <<channels, recent_ids, recent_timestamps>>
                /\ last'.invoked = <<>>)
       /\ (channels' # channels)
            => (/\ PublishStep /\ last'.result = TRUE
                /\ HistoryOf(channels', last'.channel)[Len(HistoryOf(channels', last'.channel))].id = last'.id)]_vars

\* a publish was dropped for its rate limit while a callback was subscribed
\* and the bus held history
C4_Witness ==
    /\ last.op = "xadd_json" /\ last.reason = "rate_limit"
    /\ SubscribersOf(last.channel) # <<>>
    /\ History(last.channel) # <<>>

\* C5: of n publish attempts of distinct, never seen valid items that a source
\* label makes with no time elapsed on a full bucket of capacity
\* b = int(5 r), exactly min(n, b) are accepted (b accepted and k rejected
\* when n = b + k).
C5_BurstAcceptsCapacity ==
    \A s \in DOMAIN burst :
        burst[s].distinct
          => burst[s].accepted =
                Min(Cardinality(burst[s].ids),
                    (5 * default_rate_limit.num) \div default_rate_limit.den)

\* a burst of b + k attempts with b >= 1 and k >= 1
C5_Witness ==
    \E s \in DOMAIN burst :
        /\ burst[s].distinct
        /\ burst[s].accepted >= 1
        /\ Cardinality(burst[s].ids) > burst[s].accepted

\* the step is a publish that reached the dedup check
DedupStep == PublishStep /\ last'.reason \in {"duplicate", "accepted"}

\* C6 (as stated): a publish is rejected as a duplicate exactly when its id
\* was last accepted no more than TTL ago.
C6_DuplicateIffWithinTtl ==
    [][DedupStep => (last'.reason = "duplicate" <=> AcceptedWithinTtl(last'.id))]_vars

\* C6 (amended): a publish is rejected as a duplicate exactly when its id was
\* last accepted no more than TTL ago and fewer than max_recent_items other
\* ids have been accepted since.
C6_DuplicateIffWithinTtlAndCap ==
    [][DedupStep =>
         (last'.reason = "duplicate"
            <=> (AcceptedWithinTtl(last'.id) /\ AcceptedSince(last'.id) < max_recent_items))]_vars

\* an id is in the history twice, accepted again more than TTL after it was
\* first accepted
C6_Witness ==
    LET h == History("news.raw") IN
    \E j, k \in 1..Len(h) :
        /\ j < k /\ h[j].id = h[k].id
        /\ h[k].timestamp - h[j].timestamp > RecentTtlSeconds
        /\ last.reason = "accepted" /\ last.id = h[k].id

\* C7: an accepted publish whose channel has a raising callback still returns
\* True, its message is the newest of the channel history, its id is marked
\* seen, and every callback subscribed to the channel is invoked once per
\* subscription.
C7_RaisingCallbackIsolated ==
    [][(PublishStep /\ last'.reason = "accepted"
          /\ \E cb \in Range(SubscribersOf(last'.channel)) : Raises(cb))
        => (/\ last'.result = TRUE
            /\ HistoryOf(channels', last'.channel)[Len(HistoryOf(channels', last'.channel))].id = last'.id
            /\ last'.id \in recent_ids'
            /\ \A cb \in Callbacks :
                 Count(last'.invoked, cb) = Count(SubscribersOf(last'.channel), cb))]_vars

\* a message was accepted on a channel whose first subscriber raises and
\* whose second does not
C7_Witness ==
    /\ last.op = "xadd_json" /\ last.result = TRUE
    /\ Len(SubscribersOf(last.channel)) >= 2
    /\ Raises(SubscribersOf(last.channel)[1])
    /\ ~Raises(SubscribersOf(last.channel)[2])
    /\ last.invoked = SubscribersOf(last.channel)

\* C8: get_recent_messages(channel, limit) returns the data of the newest
\* min(limit, length) messages of the channel, newest first, and changes
\* nothing of the bus, the channels that get_stats reports included.
C8_RecentIsReadOnly ==
    [][(calls' = calls + 1 /\ last'.op = "get_recent_messages")
        => (LET h == History(last'.channel) IN
            /\ Len(last'.out) = Min(last'.limit, Len(h))
            /\ \A i \in 1..Len(last'.out) : last'.out[i] = h[Len(h) + 1 - i].data
            /\ UNCHANGED busVars
            /\ DOMAIN get_stats'.channels = DOMAIN get_stats.channels)]_vars

\* the published string designates UTC, as the item schema requires
IsUtc(p) == p.kind = "dt" /\ p.tz \in {"Z", "+00:00"}

CycleEnds(h) == cycle[h].active /\ ~cycle'[h].active

\* C10: after a host fetch cycle the host's interval is what the adaptation
\* table gives for the interval the cycle was fetched with:
\* max(minInterval, interval * 0.9) when a 200 found new items,
\* min(interval * 1.1, 2 * baseline) when a 200 or 304 came and nothing new
\* was found, and min(max(interval, backoffBase) * backoffFactor, maxInterval)
\* when any feed was rate-limited, forbidden, a server error or a network
\* error.
C10_IntervalFollowsTable ==
    [][\A h \in DOMAIN host_states :
         CycleEnds(h) =>
            LET rs == cycle[h].results
                before == host_states[h].interval
                after == host_states'[h].interval
                new == Cardinality({i \in 1..Len(rs) : rs[i].new_items > 0})
                Seen(codes) == \E i \in 1..Len(rs) : rs[i].status \in codes
            IN /\ (Seen({200}) /\ new > 0)
                    => after * 10 = Max(poll_min_seconds * Scale * 10, before * 9)
               /\ (Seen({200, 304}) /\ new = 0)
                    => after * 10 = Min(before * 11, 2 * poll_baseline_seconds * Scale * 10)
               /\ Seen({429, 403, 500, 0})
                    => after = Min(Max(before, backoff_base * Scale) * backoff_factor,
                                   poll_max_seconds * Scale)]_vars

\* C11 (as stated): each of the first three consecutive cycles of a host that
\* every feed answers with 304 strictly increases the host's interval, to at
\* most 2 x baseline and at most maxInterval, from any state.
C11_NotModifiedAlwaysIncreases ==
    [][\A h \in DOMAIN host_states :
         (CycleEnds(h) /\ AllNotModified(cycle[h].results) /\ not_modified_run[h] < 3)
            => (/\ host_states'[h].interval > host_states[h].interval
                /\ host_states'[h].interval <= 2 * poll_baseline_seconds * Scale
                /\ host_states'[h].interval <= poll_max_seconds * Scale)]_vars

\* C11 (amended): a cycle that every feed answers with 304 strictly increases
\* the host's interval when the interval was below 2 x baseline and sets it to
\* 2 x baseline otherwise; after it the interval is at most 2 x baseline and
\* at most maxInterval.
C11_NotModifiedIncreasesBelowCap ==
    [][\A h \in DOMAIN host_states :
         (CycleEnds(h) /\ AllNotModified(cycle[h].results))
            => LET before == host_states[h].interval
                   after == host_states'[h].interval
                   cap == 2 * poll_baseline_seconds * Scale
               IN /\ before < cap => after > before
                  /\ before >= cap => after = cap
                  /\ after <= cap
                  /\ after <= poll_max_seconds * Scale]_vars

\* a host went through three consecutive 304 cycles from the baseline:
\* 60 -> 66 -> 72.6 -> 79.86 seconds
C11_Witness ==
    \E h \in DOMAIN host_states :
        /\ not_modified_run[h] = 3
        /\ host_states[h].interval * 1000 = poll_baseline_seconds * Scale * 1331

\* C12: after a host cycle in which a feed answered 429 the host's interval is
\* at least backoffFactor times the interval the cycle started with (or
\* maxInterval, where that is smaller), and the host's nextDue is at least the
\* cycle's now plus the new interval.
C12_RateLimitBacksOff ==
    [][\A h \in DOMAIN host_states :
         (CycleEnds(h) /\ \E i \in 1..Len(cycle[h].results) : cycle[h].results[i].status = 429)
            => (/\ host_states'[h].interval >=
                      Min(backoff_factor * cycle[h].started_with, poll_max_seconds * Scale)
                /\ host_states'[h].next_due >= cycle[h].now + host_states'[h].interval)]_vars

\* C13: after a host cycle in which a 429 carried Retry-After R the host is
\* rescheduled with an interval of at least R seconds, so that its next fetch
\* is not due earlier than R seconds after the cycle's now.
C13_RetryAfterIsFloor ==
    [][\A h \in DOMAIN host_states :
         (CycleEnds(h) /\ cycle[h].retry_after > 0)
            => (/\ host_states'[h].interval >= cycle[h].retry_after * Scale
                /\ host_states'[h].next_due >= cycle[h].now + cycle[h].retry_after * Scale)]_vars

\* the step starts a fetch cycle of host h
CycleStarts(h) == ~cycle[h].active /\ cycle'[h].active
\* the step completes the fetch of feed i of host h
FeedFetched(h, i) ==
    /\ cycle[h].active /\ cycle'[h].active
    /\ ~cycle[h].results[i].done /\ cycle'[h].results[i].done
\* no feed of the cycle of host h found a new item
NothingNew(h) == \A i \in 1..Len(cycle[h].results) : cycle[h].results[i].new_items = 0
\* a feed of the cycle was answered 304 to a request that carried a validator
NotModifiedForValidator(h) ==
    \E i \in 1..Len(cycle[h].results) :
        cycle[h].results[i].status = 304 /\ cycle[h].sent[i].if_none_match # ""

\* the validators of a 200 response are cached, every request of a cycle
\* carries the cached validators, and a 304 is not parsed: it adds nothing to
\* the seen set or the file and counts zero new items
ValidatorsCachedAndSent(h) ==
    /\ \A i \in 1..Len(cycle[h].results) :
         (FeedFetched(h, i) /\ cycle'[h].results[i].status = 200)
            => (/\ host_states'[h].etag = cycle'[h].received[i].etag
                /\ host_states'[h].last_modified = cycle'[h].received[i].last_modified)
    /\ CycleStarts(h)
         => \A i \in 1..Len(cycle'[h].sent) :
               /\ cycle'[h].sent[i].if_none_match = host_states[h].etag
               /\ cycle'[h].sent[i].if_modified_since = host_states[h].last_modified
    /\ \A i \in 1..Len(cycle[h].results) :
         (FeedFetched(h, i) /\ cycle'[h].results[i].status = 304)
            => (/\ cycle'[h].results[i].new_items = 0
                /\ UNCHANGED <<seen_items, feed_data>>
                /\ host_states'[h] = host_states[h])

\* C14 (as stated): the validator of a 200 is cached and sent by the later
\* cycle, a 304 is not parsed and emits no item, and a cycle in which a feed is
\* answered 304 for the cached validator leaves the host's interval larger
\* than the cycle started with.
C14_NotModifiedSlowsDown ==
    [][\A h \in DOMAIN host_states :
         /\ ValidatorsCachedAndSent(h)
         /\ (CycleEnds(h) /\ NotModifiedForValidator(h))
               => host_states'[h].interval > cycle[h].started_with]_vars

\* C14 (amended): the same, with the interval larger after the cycle when no
\* feed of the cycle found a new item and the cycle started below
\* 2 x baseline; after such a cycle it is never above 2 x baseline.
C14_NotModifiedSlowsDownBelowCap ==
    [][\A h \in DOMAIN host_states :
         /\ ValidatorsCachedAndSent(h)
         /\ (CycleEnds(h) /\ NotModifiedForValidator(h) /\ NothingNew(h))
               => (/\ cycle[h].started_with < 2 * poll_baseline_seconds * Scale
                        => host_states'[h].interval > cycle[h].started_with
                   /\ host_states'[h].interval <= 2 * poll_baseline_seconds * Scale)]_vars

\* a host that cached the validator v1 of a 200 sent it in a later cycle, was
\* answered 304 and has a larger interval than the baseline it started with
C14_Witness ==
    \E h \in DOMAIN host_states :
        /\ not_modified_run[h] = 1
        /\ host_states[h].etag = "v1"
        /\ cycles = 2
        /\ host_states[h].interval * 100 = poll_baseline_seconds * Scale * 121

\* C15: every fetch cycle of a host, whatever its feeds answered and whether
\* or not updating the host state raised, ends with the host idle again and
\* due later than the time the cycle started at, and leaves every other host's
\* schedule and running cycle as they were; while a cycle runs, a host that is
\* due and idle can still be polled.
C15_CycleAlwaysReschedules ==
    [][\A h \in DOMAIN host_states :
         /\ CycleEnds(h)
               => (/\ host_states'[h].next_due > cycle[h].now
                   /\ host_states'[h].interval > 0
                   /\ \A g \in DOMAIN host_states \ {h} :
                         host_states'[g] = host_states[g] /\ cycle'[g] = cycle[g])
         /\ (cycle[h].active /\ cycles < MaxCycles)
               => \A g \in DOMAIN host_states \ {h} :
                     (Idle(g) /\ sched_now >= host_states[g].next_due) => ENABLED PollHost(g)]_vars

\* the single-feed host's first cycle parsed a new entry and then the update
\* of the host state raised: the host is idle, counted a failure, and is due
\* after the present time
C15_Witness ==
    /\ cycles = 1
    /\ "b.example" \in DOMAIN host_states
    /\ Idle("b.example")
    /\ host_states["b.example"].consecutive_fail = 1
    /\ host_states["b.example"].consecutive_ok = 0
    /\ feed_data # <<>>
    /\ host_states["b.example"].next_due > sched_now

\* a feed of the cycle of host h other than feed i has failed
SiblingFailed(h, i) ==
    \E j \in 1..Len(cycle[h].results) \ {i} :
        cycle[h].results[j].done /\ cycle[h].results[j].status \notin {200, 304}
\* the entries of a body that the seen set does not hold
Fresh(body, seen) == {body[k] : k \in 1..Len(body)} \ seen

\* C16: in a cycle in which a sibling feed failed, a feed answered 200 has
\* every entry of its body parsed into the seen set, its new entries saved at
\* the front of the feed data file and counted in its result, and the results
\* of its siblings left alone; a failing feed touches neither the seen set,
\* the file nor its siblings' results; and a cycle with a failed feed and a
\* feed that found new items ends with the row for new items (interval x 0.9,
\* not below the minimum).
C16_FailingFeedDoesNotBlockSiblings ==
    [][\A h \in DOMAIN host_states :
         /\ \A i \in 1..Len(cycle[h].results) :
              /\ (FeedFetched(h, i) /\ cycle'[h].results[i].status = 200 /\ SiblingFailed(h, i))
                    => LET body == cycle'[h].received[i].entries
                           fresh == Fresh(body, seen_items)
                       IN /\ seen_items' = seen_items \cup Fresh(body, {})
                          /\ cycle'[h].results[i].new_items = Cardinality(fresh)
                          /\ Len(feed_data') = Len(feed_data) + Cardinality(fresh)
                          /\ {feed_data'[k] : k \in 1..Cardinality(fresh)} = fresh
                          /\ SubSeq(feed_data', Cardinality(fresh) + 1, Len(feed_data')) = feed_data
              /\ (FeedFetched(h, i) /\ cycle'[h].results[i].status \notin {200})
                    => UNCHANGED <<seen_items, feed_data>>
              /\ FeedFetched(h, i)
                    => \A j \in 1..Len(cycle[h].results) \ {i} :
                          cycle'[h].results[j] = cycle[h].results[j]
         /\ (/\ CycleEnds(h)
             /\ \E j \in 1..Len(cycle[h].results) : cycle[h].results[j].status \notin {200, 304}
             /\ \E i \in 1..Len(cycle[h].results) :
                   cycle[h].results[i].status = 200 /\ cycle[h].results[i].new_items > 0)
               => host_states'[h].interval =
                     Max(poll_min_seconds * Scale, (host_states[h].interval * 9) \div 10)]_vars

\* the first feed of a host was answered 429 and its sibling, answered 200
\* afterwards, found two new entries, which are in the feed data file
C16_Witness ==
    \E h \in DOMAIN host_states :
        /\ cycle[h].active /\ AllFetched(h)
        /\ Len(cycle[h].results) = 2
        /\ cycle[h].results[1].status = 429
        /\ cycle[h].results[2].status = 200 /\ cycle[h].results[2].new_items = 2
        /\ Len(feed_data) = 2

\* C17 (as stated): every entry the worker parsed and found new has been
\* handed to the event bus by the time the cycle that found it is over: with
\* no cycle running, the bus has completed at least one call for every id of
\* the seen set (accepted into the channel history, or rejected).
C17_NewEntriesArePublished ==
    (\A h \in DOMAIN host_states : Idle(h)) => calls >= Cardinality(seen_items)

\* the step handles one POST to /push/inbound
RequestHandled == webhook_stats'.total_requests = webhook_stats.total_requests + 1
\* the step runs one background task
TaskRun == Len(background_tasks') < Len(background_tasks)
\* the header value is the hex digest of the body under the secret, bare or
\* after one of the two prefixes
CarriesDigest(signature, body, secret) ==
    \E prefix \in {<<>>, <<Text("sha256=")>>, <<Text("v0=")>>} :
        signature = prefix \o <<HexDigest(secret, body)>>

\* C18: with a secret configured, a POST whose signature is absent or is not
\* the HMAC of its body is answered 401 without its JSON being parsed, adds no
\* background task and leaves the bus as it was.
C18_BadSignatureIsRejectedUnprocessed ==
    [][(/\ RequestHandled
        /\ webhook_secret # ""
        /\ ~CarriesDigest(SignatureOf(last_request'.request), last_request'.request.body,
                          webhook_secret))
          => (/\ last_request'.response.status_code = 401
              /\ ~last_request'.parsed
              /\ background_tasks' = background_tasks
              /\ UNCHANGED <<busVars, histVars>>)]_vars

\* a POST with a valid X-Hub-Signature-256 behind an invalid X-Signature was
\* answered 401 after an earlier POST had been accepted and published
C18_Witness ==
    /\ webhook_secret = "s1"
    /\ last_request.response = HttpResponse(401, "Invalid signature")
    /\ last_request.request.x_hub_signature_256 # <<>>
    /\ webhook_stats.published_items = 1
    /\ background_tasks = <<>>
    /\ calls = 1

\* C19: a POST that passes the signature check, or arrives with no secret
\* configured, and whose body parses as JSON is answered 200 "accepted"; the
\* background task that later fails to map, finds the item invalid or has it
\* rejected by the bus leaves that answer as it was.
C19_AcceptedWhateverHappensDownstream ==
    [][/\ (/\ RequestHandled
           /\ \/ webhook_secret = ""
              \/ CarriesDigest(SignatureOf(last_request'.request),
                               last_request'.request.body, webhook_secret)
           /\ last_request'.request.body # "not-json")
             => (/\ last_request'.response = Accepted
                 /\ Len(background_tasks') = Len(background_tasks) + 1)
       /\ TaskRun => last_request' = last_request]_vars

\* with a secret configured two signed POSTs were accepted; the task of one
\* published its item and the task of the other had it rejected by the bus
C19_Witness ==
    /\ webhook_secret = "s1"
    /\ webhook_stats.valid_requests = 2
    /\ webhook_stats.published_items = 1
    /\ webhook_stats.duplicate_items = 1
    /\ last_request.response = Accepted

\* C20: validate_signature returns and never raises; it returns True exactly
\* when secret and signature are non-empty and the signature is the hex digest
\* of the body under the secret, bare or after sha256= or v0=.
C20_ValidateSignatureExact ==
    sig_call.done
       => (/\ ~sig_call.result.raised
           /\ sig_call.result.value
                <=> (/\ sig_call.secret # ""
                     /\ sig_call.signature # <<>>
                     /\ CarriesDigest(sig_call.signature, sig_call.body, sig_call.secret)))

\* validate_signature returned True for a v0= signature
C20_Witness ==
    /\ sig_call.done
    /\ sig_call.result.value
    /\ Head(sig_call.signature) = Text("v0=")


\* ---- the merged view and the stream
\* the step is a call of get_latest_items that returned a view
ViewReturned == latest' # latest /\ ~latest'.raised
\* the versions of an id the bus holds on news.raw
BusVersions(id) ==
    {History("news.raw")[k].data : k \in {j \in 1..Len(History("news.raw")) :
                                             History("news.raw")[j].id = id}}
SnapshotHas(id) ==
    \E k \in 1..Len(rss_file.items) : Truthy(rss_file.items[k], "id") /\ rss_file.items[k].id = id

\* C21: the view get_latest_items returns never holds two items of one id, an
\* id that is both in the bus and in the snapshot file is returned in its bus
\* version, and the view is ordered by published, newest first.
C21_MergedViewPrefersBus ==
    [][ViewReturned =>
          LET items == latest'.items IN
          /\ \A i, j \in 1..Len(items) : i < j => items[i].id # items[j].id
          /\ \A i \in 1..Len(items) :
                BusVersions(items[i].id) # {} /\ SnapshotHas(items[i].id)
                    => items[i] \in BusVersions(items[i].id)
          /\ \A i, j \in 1..Len(items) :
                i < j => PublishedKey(items[i]) >= PublishedKey(items[j])]_vars
\* the events of a type among the events yielded so far
EventsOf(type) == {k \in 1..Len(sse.events) : sse.events[k].type = type}
\* the events the step yields
Yielded == SubSeq(sse'.events, Len(sse.events) + 1, Len(sse'.events))
\* the filtered view a pass of the loop sees, and the ids new to the connection
CurrentItems == FilterBySource(get_latest_items(StreamWindow).items, sse.source)
NewIds == IdsOf(CurrentItems) \ sse.last_seen_items
\* the step is a pass of the loop that computes its view and observes new ids
ObservesNewIds ==
    /\ sse.pc = "polling" /\ sse'.polls = sse.polls + 1
    /\ ~sse.disconnected /\ ~LoadRaises(rss_file)
    /\ NewIds # {}
PublishedOf(id) ==
    PublishedKey(CurrentItems[CHOOSE k \in 1..Len(CurrentItems) : CurrentItems[k].id = id])
\* a pass that observes new ids yields one new_item per new id, newest first,
\* then one batch_complete counting them, and replaces last_seen_items
BatchIsComplete ==
    ObservesNewIds =>
        LET n == Cardinality(NewIds) IN
        /\ Len(Yielded) = n + 1
        /\ \A k \in 1..n : Yielded[k].type = "new_item"
        /\ {Yielded[k].id : k \in 1..n} = NewIds
        /\ \A j, k \in 1..n : j < k => PublishedOf(Yielded[j].id) >= PublishedOf(Yielded[k].id)
        /\ Yielded[n + 1] = Event("batch_complete", "", n)
        /\ sse'.last_seen_items = IdsOf(CurrentItems)
\* the generator is past its initialization
Initialized == sse.pc \in {"polling", "heartbeat", "ended"}

\* C22 as stated: every connection starts with exactly one connected event
\* followed by exactly one initial_data event, and every pass that observes
\* new ids yields their new_item events, newest first, then one batch_complete
\* with their number, then updates the last-seen set.
C22_ConnectedInitialDataThenBatches ==
    [][/\ Initialized' => /\ Len(sse'.events) >= 2
                          /\ sse'.events[1].type = "connected"
                          /\ sse'.events[2].type = "initial_data"
                          /\ Cardinality(EventsOf("connected")') = 1
                          /\ Cardinality(EventsOf("initial_data")') = 1
       /\ BatchIsComplete]_vars

\* C22, amended: the second event is initial_data unless computing the initial
\* view raised, and then it is an error event and no initial_data follows.
C22_ConnectedInitialDataOrErrorThenBatches ==
    [][/\ Initialized' => /\ Len(sse'.events) >= 2
                          /\ sse'.events[1].type = "connected"
                          /\ sse'.events[2].type \in {"initial_data", "error"}
                          /\ Cardinality(EventsOf("connected")') = 1
                          /\ EventsOf("initial_data")' \subseteq {2}
       /\ StreamInit /\ ~LoadRaises(rss_file) => sse'.events[2].type = "initial_data"
       /\ BatchIsComplete]_vars

\* a batch of two items, the newer one first, and its summary
C22_Witness ==
    \E k \in 1..Len(sse.events) :
        /\ k + 2 <= Len(sse.events)
        /\ sse.events[k] = Event("new_item", IdOf(2), 0)
        /\ sse.events[k + 1] = Event("new_item", IdOf(1), 0)
        /\ sse.events[k + 2] = Event("batch_complete", "", 2)
        /\ sse.events[2].type = "initial_data"
\* the ids the bus accepted after the connection took its initial view, in a
\* version that passes the source filter of the connection
AcceptedWhileConnected ==
    {id \in KeysOf(accept_log) \ sse.accepted_before :
        \E v \in BusVersions(id) : FilterBySource(<<v>>, sse.source) # <<>>}

\* C23: an item the bus accepts while a stream client is connected, and that
\* passes the client's source filter, reaches the client as a new_item event
\* before the next heartbeat event. The heartbeats looked at are those of a
\* pass that ran from its view to its heartbeat without yielding in between.
C23_NewItemBeforeNextHeartbeat ==
    [][sse.pc = "polling" =>
          \A k \in (Len(sse.events) + 1)..Len(sse'.events) :
              sse'.events[k].type = "heartbeat" =>
                  \A id \in AcceptedWhileConnected :
                      \E j \in 1..(k - 1) : sse'.events[j] = Event("new_item", id, 0)]_vars

\* the step computes the merged view, or the heartbeat counters, and that raises
ServingRaises ==
    /\ LoadRaises(rss_file)
    /\ \/ sse.pc = "connected" /\ sse'.pc # "connected" /\ sse'.disconnected = sse.disconnected
       \/ sse.pc = "polling" /\ sse'.polls = sse.polls + 1 /\ ~sse.disconnected
       \/ sse.pc = "heartbeat" /\ sse'.pc = "polling" /\ (sse.heartbeat_counter + 1) % 3 = 0

\* C24: an error raised while serving a connected client, in the initial
\* snapshot or in any later pass, yields an error event and leaves the stream
\* polling; the stream ends only when the client has disconnected.
C24_ErrorsAreInlineAndNotFatal ==
    [][/\ ServingRaises => Yielded = <<Event("error", "", 0)>> /\ sse'.pc = "polling"
       /\ sse'.pc = "ended" => sse.disconnected]_vars
\* ---- the WebSocket adapter
AllSocketsClosed == \A k \in DOMAIN ws.sockets : ~ws.sockets[k]

\* C25: once stop() was called on a WebSocket adapter, while it reads, sleeps
\* in a backoff or has a connect in flight, connect_and_run eventually
\* terminates and none of the websockets the adapter opened is open.
C25_StopTerminatesAndCloses == ws.stopped ~> (ws.pc = "done" /\ AllSocketsClosed)

\* the step starts a connection attempt that is not the adapter's first
ReconnectStarts == ws'.connects = ws.connects + 1 /\ ws.connects >= 1
ConnectFailed == ws.pc = "connecting" /\ ws'.error_count = ws.error_count + 1
Connected == ws.pc = "connecting" /\ ws'.pc = "reading"
SleepStarts == ws'.waited > ws.waited

\* C26: every reconnect after a disconnect or a failed connect comes after a
\* delay from the backoff table: reconnect_attempts grows by one per failed
\* connect, the entry slept is min(attempts - 1, len(table) - 1), a successful
\* connect resets reconnect_attempts to 0, and no connection attempt after a
\* lost connection starts without a delay.
C26_ReconnectFollowsBackoff ==
    [][/\ ConnectFailed => ws'.reconnect_attempts = ws.reconnect_attempts + 1
       /\ Connected => ws'.reconnect_attempts = 0
       /\ SleepStarts =>
             /\ ws'.reconnect_attempts >= 1
             /\ ws'.slept_index = IF ws'.reconnect_attempts <= Len(reconnect_backoff)
                                  THEN ws'.reconnect_attempts ELSE Len(reconnect_backoff)
       /\ ReconnectStarts => ws.waited > 0]_vars

\* C27: the local message queue never holds more than max_queue_size items;
\* a new item that arrives at a full queue is appended after the oldest was dropped.
C27_QueueDropsOldest ==
    [][/\ Len(ws'.message_queue) <= ws'.max_queue_size
       /\ ws'.message_queue # ws.message_queue =>
             /\ last'.op = "xadd_json" /\ calls' = calls + 1
             /\ \E item \in {ValidItem(i) : i \in Ids} :
                   /\ item.id = last'.id
                   /\ ws'.message_queue =
                         Append(IF Len(ws.message_queue) >= ws.max_queue_size
                                THEN Tail(ws.message_queue) ELSE ws.message_queue, item)]_vars

\* the queue is full and an item the bus accepted from the adapter has left it
C27_Witness ==
    /\ Len(ws.message_queue) = ws.max_queue_size
    /\ \E id \in KeysOf(accept_log) :
          \A k \in 1..Len(ws.message_queue) : ws.message_queue[k].id # id

\* C28: a text frame that is not JSON, or a heartbeat frame, leaves
\* message_count unchanged and adds nothing to the queue or the bus:
\* message_count is the number of news frames processed.
C28_OnlyNewsFramesAreCounted ==
    [][/\ ws'.message_count = ws'.news_frames
       /\ ws'.news_frames = ws.news_frames =>
             /\ ws'.message_count = ws.message_count
             /\ ws'.message_queue = ws.message_queue
             /\ UNCHANGED busVars]_vars
\* ---- the newswire client
\* the step is a connect() that fails after an earlier one failed, with no
\* connection in between
FailsAgain == nw.pc = "connecting" /\ nw'.failures = nw.failures + 1 /\ nw.failures >= 1
\* the step starts a connection attempt that is not the client's first
NewswireReconnects == nw'.connects = nw.connects + 1 /\ nw.connects >= 1

\* C29: across connect failures in a row the delay before the next connect
\* escalates, every failure after the first waiting longer than the fixed
\* retry delay, and every reconnect after a lost connection comes after at
\* least the fixed retry delay.
C29_RetryDelayEscalates ==
    [][/\ FailsAgain => nw'.waited - nw.waited > retry_delay
       /\ NewswireReconnects => nw.waited >= retry_delay]_vars
\* ---- the mappers
\* C30: no entry point of the normalizer (map_ws_payload_to_raw,
\* map_webhook_payload_to_raw, map_newswire_to_raw, safe_map_payload) raises,
\* whatever the payload and the context: a call that does not return an item
\* returns None, also when it fails while determining the vendor.
C30_MappersNeverRaise == mapping.done => ~mapping.raised

\* ---- the worker's ids
Extracted == made # <<>> /\ "raw_a" \in DOMAIN made
\* the two entries are one story whose published differs in the seconds only
SameStoryOtherSecond ==
    /\ item_a.title = item_b.title /\ item_a.link = item_b.link
    /\ Parseable(item_a.published) /\ Parseable(item_b.published)
    /\ item_a.published.minute = item_b.published.minute
    /\ item_a.published.tz = item_b.published.tz
    /\ item_a.published.second # item_b.published.second

\* C31: the id the worker gives an extracted entry is the id make_id gives
\* the same link, title and published, and two entries that differ only in the
\* seconds of published get one id, so that seen_items holds one id for them.
C31_WorkerIdIsCanonicalId ==
    Extracted =>
        /\ made.a = make_id(made.raw_a)
        /\ made.b = make_id(made.raw_b)
        /\ SameStoryOtherSecond => (made.a = made.b /\ made.new_items = 1)

\* ---- the size limit of the dedup window
\* entries of the id->timestamp map that are not expired at `now`
Unexpired == {e \in Range(recent_timestamps) : e.ts >= now - RecentTtlSeconds}

\* C32: a cleanup that finds more tracked ids than max_recent_items leaves at
\* most max_recent_items of them, every unexpired id it evicted was accepted
\* no later than every id it kept, the id set and the id->timestamp map hold
\* the same ids after it, and the publish that ran it leaves exactly what the
\* cleanup kept plus its own id when it was accepted.
C32_CapEvictsOldestFirst ==
    [][(DedupStep /\ Cardinality(recent_ids) > max_recent_items)
        => LET c == CleanupRecent(recent_ids, recent_timestamps, max_recent_items, now)
               evicted == {e \in Unexpired : e.id \notin c.ids}
               retained == {e \in Range(recent_timestamps) : e.id \in c.ids}
           IN /\ Cardinality(c.ids) <= max_recent_items
              /\ \A e \in evicted : \A r \in retained : e.ts <= r.ts
              /\ c.ids = KeysOf(c.ts)
              /\ recent_ids' = (IF last'.result THEN c.ids \cup {last'.id} ELSE c.ids)
              /\ KeysOf(recent_timestamps') = recent_ids']_vars

\* an id accepted within the TTL window is no longer tracked while an id
\* accepted after it, which the last publish did not add, still is
C32_Witness ==
    /\ last.op = "xadd_json" /\ last.reason \in {"duplicate", "accepted"}
    /\ \E k \in 1..Len(accept_log) :
         /\ now - accept_log[k].ts <= RecentTtlSeconds
         /\ accept_log[k].id \notin recent_ids
         /\ \E r \in Range(recent_timestamps) :
              /\ r.id # last.id \/ last.reason = "duplicate"
              /\ r.id # accept_log[k].id /\ r.ts > accept_log[k].ts

\* ---- tokens taken by publish attempts
\* the other sources' buckets are as they were
OtherBucketsUnchanged ==
    \A o \in DOMAIN rate_limiters \ {last'.source} :
        /\ o \in DOMAIN rate_limiters'
        /\ limiters'[rate_limiters'[o]] = limiters[rate_limiters[o]]

\* the publish took one token of its source's bucket if the bucket held one,
\* and none if it did not (and then was rejected for its rate limit)
TookOneTokenIfAvailable ==
    /\ last'.source \in DOMAIN rate_limiters'
    /\ IF TokensAvailable(last'.source) >= default_rate_limit.den
       THEN /\ limiters'[rate_limiters'[last'.source]].tokens
                    = TokensAvailable(last'.source) - default_rate_limit.den
            /\ last'.reason \in {"duplicate", "accepted"}
       ELSE /\ limiters'[rate_limiters'[last'.source]].tokens = TokensAvailable(last'.source)
            /\ last'.reason = "rate_limit"
    /\ OtherBucketsUnchanged

\* C33: every publish that passes the structural checks of xadd_json
\* (validate_raw_item on news.raw and a truthy id) takes exactly one token of
\* its source's bucket when the bucket holds one, also when it is then
\* rejected as a duplicate; a publish rejected for its rate limit takes none,
\* and a publish that fails a structural check takes none and creates no
\* limiter.
C33_OneTokenPerValidatedAttempt ==
    [][PublishStep
        => IF last'.reason \in {"invalid", "missing_id"}
           THEN UNCHANGED <<rate_limiters, limiters>>
           ELSE TookOneTokenIfAvailable]_vars

\* a duplicate was rejected at a time its source's bucket had been full, and
\* the bucket is one token short of full afterwards
C33_Witness ==
    /\ last.op = "xadd_json" /\ last.reason = "duplicate"
    /\ last.source \in DOMAIN rate_limiters
    /\ limiters[rate_limiters[last.source]].last_update = now
    /\ limiters[rate_limiters[last.source]].tokens
          = (MaxTokens(default_rate_limit) - 1) * default_rate_limit.den

\* ---- heartbeat frames
\* a payload with a title and a url and none of the marker fields
IsNewsPayload(payload) ==
    /\ \E i \in 1..Len(payload) : payload[i].key = Text_title
    /\ \E i \in 1..Len(payload) : payload[i].key = Text_url
    /\ \A i \in 1..Len(payload) :
          payload[i].key \notin {Text_type, Text_message_type, Text_event}

\* the running adapter handled a text frame that is a news payload
NewsFrameHandled ==
    /\ ws.running
    /\ ws'.message_count = ws.message_count + 1
    /\ IsJson(ws'.last_frame)
    /\ IsNewsPayload(JsonLoads(ws'.last_frame))

\* C34: a frame whose payload has a title and a url and no heartbeat marker
\* field is not classified as heartbeat: the adapter maps it and offers the
\* item to the bus under its source label.
C34_NewsIsNeverHeartbeat ==
    [][NewsFrameHandled
        => /\ ~is_heartbeat_message(JsonLoads(ws'.last_frame))
           /\ PublishStep
           /\ last'.source = "websocket:a"]_vars

\* ---- repeated new_item events
\* the positions of the new_item events the connection yielded
NewItemEvents == {k \in 1..Len(sse.events) : sse.events[k].type = "new_item"}

\* C35: on one stream connection no id is yielded in more than one new_item
\* event, and no id of the connection's initial view is yielded as new_item,
\* however the merged view changes in between.
C35_NewItemOncePerId ==
    /\ \A j, k \in NewItemEvents : sse.events[j].id = sse.events[k].id => j = k
    /\ \A k \in NewItemEvents : sse.events[k].id \notin sse.initial_ids

\* ---- the range of the polling interval
\* C36: with poll_min_seconds <= poll_baseline_seconds and
\* 2 * poll_baseline_seconds <= poll_max_seconds, after every completed fetch
\* cycle, whatever its feeds answered, the host's interval is at least
\* poll_min_seconds and at most poll_max_seconds.
C36_IntervalWithinBounds ==
    (poll_min_seconds <= poll_baseline_seconds /\ 2 * poll_baseline_seconds <= poll_max_seconds)
        => \A h \in DOMAIN host_states :
              Idle(h) => /\ host_states[h].interval >= poll_min_seconds * Scale
                         /\ host_states[h].interval <= poll_max_seconds * Scale

\* ---- cycles without a 200 or a 304
\* the step ends a fetch cycle of host h in which no feed answered 200 or 304
FailedCycleEnds(h) ==
    /\ cycle[h].active
    /\ ~cycle'[h].active
    /\ ~AnyCode(StatusCodes(cycle[h].results), {200, 304})

\* C37: every cycle in which no feed answered 200 or 304, also one whose
\* feeds answered 404 only, backs the host off: its interval after the cycle is
\* larger than the one the cycle started with, unless that was poll_max_seconds
\* already.
C37_FailedCycleBacksOff ==
    [][\A h \in DOMAIN host_states :
          FailedCycleEnds(h)
            => \/ host_states'[h].interval > cycle[h].started_with
               \/ cycle[h].started_with >= poll_max_seconds * Scale]_vars

\* ---- the validators of a feed
\* the step starts a fetch cycle of host h
CycleStartsOn(h) == ~cycle[h].active /\ cycle'[h].active

\* C38: the If-None-Match and If-Modified-Since sent with the fetch of a feed
\* are the ETag and Last-Modified of the latest 200 response of that feed (none
\* when it had no such response or the response carried none): no feed is sent
\* the validators of another feed of its host, and no feed's validators are
\* erased by a 200 response of another feed.
C38_ValidatorsArePerFeed ==
    [][\A h \in DOMAIN host_states :
          CycleStartsOn(h)
            => \A i \in 1..Len(feeds_by_host[h]) :
                  cycle'[h].sent[i] =
                      [if_none_match |-> feed_validators[h][i].etag,
                       if_modified_since |-> feed_validators[h][i].last_modified]]_vars

\* ---- concurrent first publishes of a source label
\* the thread's publish passed rate_limiter.allow()
PassedRateLimit(t) ==
    \/ pc[t] \in {"seen", "insert"}
    \/ tres[t].done /\ tres[t].reason \in {"duplicate", "accepted"}

\* C39: however concurrent first publishes of a source label interleave, one
\* RateLimiter is created per label, and the publishes of a label that pass the
\* rate-limit check while no time elapses are at most the bucket's capacity.
C39_OneLimiterPerLabel ==
    /\ Len(limiters) = Cardinality(DOMAIN rate_limiters)
    /\ \A s \in Sources :
          Cardinality({t \in Threads : targs[t].source = s /\ PassedRateLimit(t)})
              <= MaxTokens(default_rate_limit)

\* more publishes of a label passed than its bucket holds
C39_BurstExceedsCapacity ==
    \E s \in Sources :
        Cardinality({t \in Threads : targs[t].source = s /\ PassedRateLimit(t)})
            > MaxTokens(default_rate_limit)

\* ---- the client sessions of the WebSocket adapter
\* the sessions the adapter opened that are open
OpenSessions == {k \in DOMAIN ws.sessions : ws.sessions[k]}

\* C40: the client session a WebSocket adapter opens for a connect attempt is
\* closed once the attempt failed or its connection ended, so the only session
\* that may be open is the one of the attempt or connection in progress, and
\* at most one session is open after any rounds of connecting and reconnecting.
C40_SessionsAreClosed ==
    /\ \A k \in OpenSessions :
          k = Len(ws.sessions) /\ ws.pc \in {"connecting", "reading"}
    /\ Cardinality(OpenSessions) <= 1

====
